---- MODULE Spec2Model ----
(***************************************************************************)
(* A model of the chat gateway of RobRead84/blank-app:                     *)
(*   security_utils.py  RateLimiter, InputValidator, SessionManager        *)
(*   streamlit_app.py   query_langflow_api, the chat turn handler, the     *)
(*                      sidebar navigation, display_message_with_tables,   *)
(*                      render_table_from_lines,                           *)
(*                      extract_message_from_response                      *)
(*                                                                         *)
(* Ten specifications share the variables; each leaves the variables of    *)
(* the others at their initial value.                                      *)
(*   SpecRL      RateLimiter.is_allowed called by concurrent threads       *)
(*   SpecRLOps   the public operations of RateLimiter, one caller          *)
(*   Spec        one browser session: chat turns and navigation            *)
(*   SpecSession one browser session, run by run: session lifecycle,       *)
(*               configuration check, security log, chat turns             *)
(*   SpecLog     SecurityLogger.log_security_event called in sequence      *)
(*   SpecClear   initialize_session, is_allowed and clear_session called   *)
(*               directly                                                  *)
(*   SpecRender  display_message_with_tables on a bounded set of replies   *)
(*   SpecSan     InputValidator.sanitize_input on bounded strings          *)
(*   SpecVal     InputValidator.validate_input on every kind of prompt     *)
(*   SpecExtract extract_message_from_response on a set of envelopes       *)
(***************************************************************************)
EXTENDS Integers, Sequences, FiniteSets, TLC

VARIABLES
    clock,          \* the wall clock read by datetime.now(), in ticks
    max_requests,   \* RateLimiter.max_requests
    requests,       \* RateLimiter.requests: user_id -> list of timestamps
    thr,            \* SpecRL: each thread's position in is_allowed
    calls,          \* SpecRL, SpecRLOps, SpecClear: history of the calls
    content,        \* SpecRender: the reply, as its lines (content.split('\n'))
    dpc,            \* SpecRender: position in display_message_with_tables
    lineno,         \* SpecRender: index of the next line of the for loop
    current_text,   \* SpecRender: current_text
    table_lines,    \* SpecRender: table_lines
    in_table,       \* SpecRender: in_table
    plan,           \* SpecRender: the segments rendered so far, in order
    san_in,         \* SpecSan: the string given to sanitize_input first
    san_prev,       \* SpecSan: the argument of the latest sanitize_input call
    san_out,        \* SpecSan: the result of the latest sanitize_input call
    san_n,          \* SpecSan: sanitize_input calls made so far
    page,           \* Spec: st.session_state["page"]
    processing,     \* Spec: st.session_state["processing"]
    messages,       \* Spec: st.session_state["messages"]: page -> message log
    turns,          \* Spec: the chat turns started so far, in order of start
    posts,          \* Spec: the requests.post calls made so far, in order
    session,        \* SpecSession: the SessionManager keys of st.session_state
    security_logs,  \* SpecSession: st.session_state["security_logs"]
    debug_mode,     \* SpecSession: st.session_state["debug_mode"]
    config,         \* SpecSession: st.secrets["api"], as far as the app reads it
    next_id,        \* SpecSession: the next value the generators will draw
    destroyed,      \* SpecSession: the identifiers of the sessions cleared so far
    timeout_check,  \* SpecSession: the latest check_session_timeout call
    logged,         \* SpecLog: the log_security_event calls made so far, in order
    val_in,         \* SpecVal: the checks the prompt given to validate_input trips
    val_out,        \* SpecVal: what validate_input returned
    val_events,     \* SpecVal: what validate_input logged
    val_n,          \* SpecVal: validate_input calls made so far
    ext_in,         \* SpecExtract: the envelope given to the extractor
    ext_out,        \* SpecExtract: what extract_message_from_response returned
    ext_n           \* SpecExtract: extract_message_from_response calls made so far

rlvars == <<clock, max_requests, requests, thr, calls>>
rendervars == <<content, dpc, lineno, current_text, table_lines, in_table, plan>>
sanvars == <<san_in, san_prev, san_out, san_n>>
appvars == <<page, processing, messages, turns, posts>>
sessvars == <<session, security_logs, debug_mode, config, next_id, destroyed,
              timeout_check, logged>>
valvars == <<val_in, val_out, val_events, val_n>>
extvars == <<ext_in, ext_out, ext_n>>

vars == <<clock, max_requests, requests, thr, calls,
          content, dpc, lineno, current_text, table_lines, in_table, plan,
          san_in, san_prev, san_out, san_n,
          page, processing, messages, turns, posts,
          session, security_logs, debug_mode, config, next_id, destroyed,
          timeout_check, logged,
          val_in, val_out, val_events, val_n, ext_in, ext_out, ext_n>>

(***************************************************************************)
(* Bounds of the model.                                                    *)
(***************************************************************************)
\* the last clock value
MaxTime == 3
\* the sliding window, timedelta(minutes=window_minutes), in ticks
Window == 2
\* max_requests is drawn from 1..MaxM
MaxM == 2
\* is_allowed calls that may return in one behaviour of SpecRL
MaxCalls == 3
\* lines of a reply given to display_message_with_tables
MaxLines == 3
\* InputValidator.MAX_INPUT_LENGTH (5000), scaled to the strings of the model
MaxInputLength == 3
\* length of the strings given to sanitize_input
MaxStrLen == 4

\* chat turns started in one behaviour of Spec
MaxTurns == 2
\* SessionManager.SESSION_TIMEOUT_MINUTES (60 minutes), in ticks
SessionTimeout == 2
\* SecurityLogger.MAX_LOG_ENTRIES (100), scaled to the runs of the model
MaxLogEntries == 4

Users == {"u1", "u2"}
Threads == {1, 2}

(***************************************************************************)
(* RateLimiter                                                             *)
(***************************************************************************)
\* self.requests.get(user_id, [])
BucketOf(reqs, u) == IF u \in DOMAIN reqs THEN reqs[u] ELSE <<>>

\* the list comprehension of _clean_old_requests: now - req_time < self.window
KeepRecent(list, now) ==
    LET Young(r) == now - r < Window
    IN  SelectSeq(list, Young)

\* _clean_old_requests under its lock: every bucket is filtered with the
\* caller's clock reading, and a bucket left empty is deleted from the map
CleanOld(reqs, now) ==
    LET kept == [u \in DOMAIN reqs |-> KeepRecent(reqs[u], now)]
    IN  [u \in {v \in DOMAIN reqs : kept[v] # <<>>} |-> kept[u]]

\* a variant that is off by one
LimitExceededOffByOne(n, max) == n > max

\* len(user_requests) >= self.max_requests
LimitExceeded(n, max) == n >= max

\* self.requests[user_id].append(now), creating the bucket when absent
RecordRequest(reqs, u, now) ==
    [v \in (DOMAIN reqs) \cup {u} |->
        IF v = u THEN Append(BucketOf(reqs, u), now) ELSE reqs[v]]

\* a variant that checks the limit and records nothing
CheckOnly(reqs, u, now, max) ==
    <<~LimitExceeded(Len(BucketOf(reqs, u)), max), reqs>>

\* the locked block of is_allowed: <<result, requests afterwards>>
CheckAndRecord(reqs, u, now, max) ==
    IF LimitExceeded(Len(BucketOf(reqs, u)), max)
    THEN <<FALSE, reqs>>
    ELSE <<TRUE, RecordRequest(reqs, u, now)>>

NoRequests == [u \in {} |-> <<>>]

IdleThread == [pc |-> "idle", u |-> "u1", now |-> 0, cnow |-> 0]

RLIdle ==
    /\ clock = 0
    /\ max_requests = 1
    /\ requests = NoRequests
    /\ thr = [t \in Threads |-> IdleThread]
    /\ calls = <<>>

RenderIdle ==
    /\ content = <<>>
    /\ dpc = "idle"
    /\ lineno = 0
    /\ current_text = <<>>
    /\ table_lines = <<>>
    /\ in_table = FALSE
    /\ plan = <<>>

SanIdle ==
    /\ san_in = <<>>
    /\ san_prev = <<>>
    /\ san_out = <<>>
    /\ san_n = 0

\* the pages that have a message log and an endpoint
ChatPages == {"Furze", "Eco System Identification", "SWOT Generation", "Growth Scenarios"}

\* the sidebar's navigation buttons
Pages == {"Home"} \cup ChatPages

\* the buttons the user of Spec presses
Visited == {"Home", "Furze", "SWOT Generation"}

AppIdle ==
    /\ page = "Home"
    /\ processing = FALSE
    /\ messages = [k \in ChatPages |-> <<>>]
    /\ turns = <<>>
    /\ posts = <<>>

\* st.session_state without the SessionManager keys
NoSession ==
    [exists |-> FALSE, session_start |-> 0, last_activity |-> 0,
     session_token |-> 0, session_id |-> 0, session_integrity_hash |-> 0,
     user_id |-> 0]

\* check_session_timeout has not been called
NoCheck == [called |-> FALSE, elapsed |-> 0, result |-> FALSE]

\* st.secrets with every endpoint
FullConfig == [present |-> TRUE, endpoints |-> ChatPages]

SessIdle ==
    /\ session = NoSession
    /\ security_logs = <<>>
    /\ debug_mode = FALSE
    /\ config = FullConfig
    /\ next_id = 1
    /\ destroyed = <<>>
    /\ timeout_check = NoCheck
    /\ logged = <<>>

ValIdle ==
    /\ val_in = {}
    /\ val_out = [ok |-> TRUE, msg |-> ""]
    /\ val_events = <<>>
    /\ val_n = 0

ExtIdle ==
    /\ ext_in = <<>>
    /\ ext_out = <<>>
    /\ ext_n = 0

InitRL ==
    /\ clock = 0
    /\ max_requests \in 1..MaxM
    /\ requests = NoRequests
    /\ thr = [t \in Threads |-> IdleThread]
    /\ calls = <<>>
    /\ RenderIdle
    /\ SanIdle
    /\ AppIdle
    /\ SessIdle
    /\ ValIdle
    /\ ExtIdle

Started == Cardinality({t \in Threads : thr[t].pc # "idle"})

\* time passes between any two steps of any thread
Tick ==
    /\ clock < MaxTime
    /\ clock' = clock + 1
    /\ UNCHANGED <<max_requests, requests, thr, calls, rendervars, sanvars, appvars, sessvars,
                   valvars, extvars>>

\* is_allowed: user_id = identifier; now = datetime.now()
AllowedReadNow(t, u) ==
    /\ thr[t].pc = "idle"
    /\ Len(calls) + Started < MaxCalls
    /\ thr' = [thr EXCEPT ![t] = [pc |-> "clean", u |-> u, now |-> clock, cnow |-> 0]]
    /\ UNCHANGED <<clock, max_requests, requests, calls, rendervars, sanvars, appvars, sessvars,
                   valvars, extvars>>

\* _clean_old_requests: now = datetime.now(), read before the lock is taken
CleanReadNow(t) ==
    /\ thr[t].pc = "clean"
    /\ thr' = [thr EXCEPT ![t].pc = "evict", ![t].cnow = clock]
    /\ UNCHANGED <<clock, max_requests, requests, calls, rendervars, sanvars, appvars, sessvars,
                   valvars, extvars>>

\* _clean_old_requests: the block under self._lock
CleanEvict(t) ==
    /\ thr[t].pc = "evict"
    /\ requests' = CleanOld(requests, thr[t].cnow)
    /\ thr' = [thr EXCEPT ![t].pc = "check"]
    /\ UNCHANGED <<clock, max_requests, calls, rendervars, sanvars, appvars, sessvars,
                   valvars, extvars>>

\* is_allowed: the block under self._lock, and the return
AllowedCheck(t) ==
    /\ thr[t].pc = "check"
    /\ LET r == CheckAndRecord(requests, thr[t].u, thr[t].now, max_requests)
       IN  /\ requests' = r[2]
           /\ calls' = Append(calls, [u |-> thr[t].u, t |-> thr[t].now,
                                      inst |-> (thr[t].now = clock),
                                      ok |-> r[1]])
    /\ thr' = [thr EXCEPT ![t] = IdleThread]
    /\ UNCHANGED <<clock, max_requests, rendervars, sanvars, appvars, sessvars,
                   valvars, extvars>>

NextRL ==
    \/ Tick
    \/ \E t \in Threads, u \in Users : AllowedReadNow(t, u)
    \/ \E t \in Threads : CleanReadNow(t)
    \/ \E t \in Threads : CleanEvict(t)
    \/ \E t \in Threads : AllowedCheck(t)

SpecRL == InitRL /\ [][NextRL]_vars

(***************************************************************************)
(* Claims about RateLimiter (SpecRL)                                       *)
(***************************************************************************)
\* the calls of user u that returned true with a recorded time in [s, s+Window)
AdmittedIn(u, s) ==
    {i \in DOMAIN calls : /\ calls[i].u = u
                          /\ calls[i].ok
                          /\ s <= calls[i].t
                          /\ calls[i].t < s + Window}

\* C1: for every user and every window of Window ticks, at most max_requests
\* of the is_allowed calls whose recorded times fall inside that window
\* returned true, over every interleaving of the callers.
C1_AtMostMaxPerWindow ==
    \A u \in Users : \A s \in 0..MaxTime :
        Cardinality(AdmittedIn(u, s)) <= max_requests

\* the earlier calls of the same user as call i that returned true and whose
\* recorded time r satisfies lo <= calls[i].t - r <= hi
EarlierAdmitted(i, lo, hi) ==
    {j \in 1..(i - 1) : /\ calls[j].u = calls[i].u
                        /\ calls[j].ok
                        /\ lo <= calls[i].t - calls[j].t
                        /\ calls[i].t - calls[j].t <= hi}

\* call i and every earlier call of its user ran at one instant of the clock
AllInstant(i) ==
    \A j \in 1..i : calls[j].u = calls[i].u => calls[j].inst

\* C2: calls made at one instant t return true until max_requests of them
\* were admitted at t, the next call at t returns false, and a call made
\* more than Window after the admitted ones returns true again, however
\* many calls were denied in between; a denied call records no timestamp.
C2_WindowScenario ==
    /\ \A i \in DOMAIN calls :
          AllInstant(i) =>
            /\ Cardinality(EarlierAdmitted(i, 0, Window)) < max_requests
                  => calls[i].ok
            /\ Cardinality(EarlierAdmitted(i, 0, 0)) >= max_requests
                  => ~calls[i].ok
    /\ \A u \in Users :
          Len(BucketOf(requests, u)) <=
              Cardinality({i \in DOMAIN calls : calls[i].u = u /\ calls[i].ok})

\* max_requests calls admitted at t, a call denied at t, and a later call,
\* more than Window after t, admitted
C2_Witness ==
    \E i, j, k \in DOMAIN calls :
        /\ i < j /\ j < k
        /\ AllInstant(k)
        /\ calls[i].u = calls[k].u /\ calls[j].u = calls[k].u
        /\ calls[i].ok /\ ~calls[j].ok /\ calls[k].ok
        /\ calls[j].t = calls[i].t
        /\ Cardinality(EarlierAdmitted(j, 0, 0)) = max_requests
        /\ calls[k].t > calls[i].t + Window

(***************************************************************************)
(* Text: a string is a sequence of one-character strings.                  *)
(***************************************************************************)
RECURSIVE LStrip(_)
\* str.lstrip() for the whitespace of the model, the space
LStrip(s) == IF s # <<>> /\ Head(s) = " " THEN LStrip(Tail(s)) ELSE s

RECURSIVE RStrip(_)
\* str.rstrip()
RStrip(s) ==
    IF s # <<>> /\ s[Len(s)] = " " THEN RStrip(SubSeq(s, 1, Len(s) - 1)) ELSE s

\* str.strip()
Strip(s) == RStrip(LStrip(s))

\* sub in s
Contains(s, sub) ==
    \E i \in 1..(Len(s) - Len(sub) + 1) : SubSeq(s, i, i + Len(sub) - 1) = sub

\* s.count(ch)
Count(s, ch) == Cardinality({i \in DOMAIN s : s[i] = ch})

StartsWith(s, ch) == s # <<>> /\ Head(s) = ch
EndsWith(s, ch) == s # <<>> /\ s[Len(s)] = ch

RECURSIVE SplitFrom(_, _, _, _)
SplitFrom(s, ch, i, cur) ==
    IF i > Len(s) THEN <<cur>>
    ELSE IF s[i] = ch THEN <<cur>> \o SplitFrom(s, ch, i + 1, <<>>)
    ELSE SplitFrom(s, ch, i + 1, Append(cur, s[i]))

\* s.split(ch)
Split(s, ch) == SplitFrom(s, ch, 1, <<>>)

\* xs[1:-1]
Inner(xs) == IF Len(xs) < 2 THEN <<>> ELSE SubSeq(xs, 2, Len(xs) - 1)

(***************************************************************************)
(* render_table_from_lines                                                 *)
(***************************************************************************)
\* any(sep in line for sep in ["---", "--|", "-|-", "|-|"])
HasSeparatorText(line) ==
    \/ Contains(line, <<"-", "-", "-">>)
    \/ Contains(line, <<"-", "-", "|">>)
    \/ Contains(line, <<"-", "|", "-">>)
    \/ Contains(line, <<"|", "-", "|">>)

\* [col.strip() for col in line.split('|')[1:-1]]
Cells(line) ==
    LET parts == Inner(Split(line, "|"))
    IN  [i \in DOMAIN parts |-> Strip(parts[i])]

NonEmpty(c) == c # <<>>

\* headers: the header line's cells without the empty ones
HeadersOf(header_line) == SelectSeq(Cells(header_line), NonEmpty)

\* [cell for cell in row_data if cell or len(row_data) <= len(headers)]
DropEmptyCells(row_data, k) ==
    IF Len(row_data) <= k THEN row_data ELSE SelectSeq(row_data, NonEmpty)

\* a variant that pads and never trims
PadOrTrimNoTrim(row_data, k) ==
    row_data \o [i \in 1..(k - Len(row_data)) |-> <<>>]

\* while len(row_data) < len(headers): append(""); then row_data[:len(headers)]
PadOrTrim(row_data, k) ==
    IF Len(row_data) < k
    THEN row_data \o [i \in 1..(k - Len(row_data)) |-> <<>>]
    ELSE SubSeq(row_data, 1, k)

\* one data line to its row
RowOf(line, k) == PadOrTrim(DropEmptyCells(Cells(line), k), k)

\* st.markdown('\n'.join(lines))
Prose(lines) ==
    [kind |-> "prose", lines |-> lines, headers |-> <<>>, rows |-> <<>>,
     src |-> <<>>]

\* st.dataframe(pd.DataFrame(rows, columns=headers)); src keeps the header
\* line and the data lines the rows were made of
Table(headers, rows, src) ==
    [kind |-> "table", lines |-> <<>>, headers |-> headers, rows |-> rows,
     src |-> src]

\* index of the first line without separator text, 0 when there is none
HeaderIdx(lines) ==
    LET cand == {i \in DOMAIN lines : ~HasSeparatorText(lines[i])}
    IN  IF cand = {} THEN 0 ELSE CHOOSE i \in cand : \A j \in cand : i <= j

\* the lines after the header that hold no separator text
DataLines(lines, header_idx) ==
    LET idx == {i \in DOMAIN lines : i > header_idx /\ ~HasSeparatorText(lines[i])}
        RECURSIVE Take(_)
        Take(i) == IF i > Len(lines) THEN <<>>
                   ELSE IF i \in idx THEN <<lines[i]>> \o Take(i + 1)
                   ELSE Take(i + 1)
    IN  Take(1)

\* render_table_from_lines: the segment it renders
RenderTable(lines) ==
    IF Len(lines) < 2 THEN Prose(lines)
    ELSE IF HeaderIdx(lines) = 0 THEN Prose(lines)
    ELSE LET hidx == HeaderIdx(lines)
             headers == HeadersOf(lines[hidx])
             data_lines == DataLines(lines, hidx)
             rows == [i \in DOMAIN data_lines |-> RowOf(data_lines[i], Len(headers))]
         IN  IF headers = <<>> THEN Prose(lines)
             ELSE IF rows # <<>> THEN Table(headers, rows, <<lines[hidx]>> \o data_lines)
             ELSE Prose(lines)

(***************************************************************************)
(* display_message_with_tables                                             *)
(***************************************************************************)
\* line_stripped.startswith('|') and line_stripped.endswith('|') and
\* line_stripped.count('|') >= 3
IsTableRow(ls) == StartsWith(ls, "|") /\ EndsWith(ls, "|") /\ Count(ls, "|") >= 3

\* line_stripped.startswith('|') and any(sep in line_stripped ...)
IsSeparator(ls) == StartsWith(ls, "|") /\ HasSeparatorText(ls)

\* the lines a reply is made of
LinePool == <<
    <<>>,
    <<"a">>,
    <<"|", "a", "|", "b", "|">>,
    <<"|", "a", "|", "b", "|", "c", "|">>,
    <<"|", "-", "|", "-", "|">>,
    <<"|", "a", "-", "|", "-", "b", "|">>,
    <<"|", "a", "|", "|", "b", "|", "c", "|">>,
    <<" ", "|", "a", "|", " ">>,
    <<"a", "|", "b", "|", "c">>,
    <<"|", " ", "|", "a", "|">>,
    <<"|", "a", "|", "b", "|", "c", "|", "a", "|">> >>

Replies ==
    UNION {[1..n -> {LinePool[i] : i \in DOMAIN LinePool}] : n \in 1..MaxLines}

InitRender ==
    /\ RLIdle
    /\ SanIdle
    /\ AppIdle
    /\ SessIdle
    /\ ValIdle
    /\ ExtIdle
    /\ content \in Replies
    /\ dpc = "start"
    /\ lineno = 0
    /\ current_text = <<>>
    /\ table_lines = <<>>
    /\ in_table = FALSE
    /\ plan = <<>>

\* if "|" in content: ... else st.markdown(content)
DisplayStart ==
    /\ dpc = "start"
    /\ IF \E i \in DOMAIN content : Contains(content[i], <<"|">>)
       THEN /\ dpc' = "scan"
            /\ lineno' = 1
            /\ plan' = plan
       ELSE /\ dpc' = "done"
            /\ lineno' = lineno
            /\ plan' = Append(plan, Prose(content))
    /\ UNCHANGED <<content, current_text, table_lines, in_table, rlvars, sanvars, appvars, sessvars,
                   valvars, extvars>>

\* one iteration of for i, line in enumerate(lines)
ScanLine ==
    /\ dpc = "scan"
    /\ lineno <= Len(content)
    /\ LET line == content[lineno]
           ls == Strip(line)
       IN  IF IsTableRow(ls) \/ IsSeparator(ls)
           THEN /\ plan' = IF ~in_table /\ current_text # <<>>
                           THEN Append(plan, Prose(current_text)) ELSE plan
                /\ current_text' = IF ~in_table THEN <<>> ELSE current_text
                /\ in_table' = TRUE
                /\ table_lines' = Append(table_lines, ls)
           ELSE LET ends == in_table /\ ls # <<>>
                    still == in_table /\ ~ends
                IN  /\ plan' = IF ends THEN Append(plan, RenderTable(table_lines))
                               ELSE plan
                    /\ table_lines' = IF ends THEN <<>> ELSE table_lines
                    /\ in_table' = still
                    /\ current_text' = IF ls # <<>> \/ ~still
                                       THEN Append(current_text, line)
                                       ELSE current_text
    /\ lineno' = lineno + 1
    /\ UNCHANGED <<content, dpc, rlvars, sanvars, appvars, sessvars, valvars, extvars>>

\* after the loop: the remaining table, or else the remaining text
DisplayEnd ==
    /\ dpc = "scan"
    /\ lineno > Len(content)
    /\ plan' = IF table_lines # <<>> /\ in_table
               THEN Append(plan, RenderTable(table_lines))
               ELSE IF current_text # <<>> THEN Append(plan, Prose(current_text))
               ELSE plan
    /\ dpc' = "done"
    /\ UNCHANGED <<content, lineno, current_text, table_lines, in_table, rlvars, sanvars, appvars, sessvars,
                   valvars, extvars>>

NextRender == DisplayStart \/ ScanLine \/ DisplayEnd

SpecRender == InitRender /\ [][NextRender]_vars

(***************************************************************************)
(* Claims about the renderer (SpecRender)                                  *)
(***************************************************************************)
\* a line made of nothing but table rule characters
PureRule(line) == \A i \in DOMAIN line : line[i] \in {"|", "-", " "}

\* the places <<segment, position>> of the plan where line L is rendered:
\* as a line of a prose segment, or as the header or a data row of a table
RenderedAt(L) ==
    {<<i, j>> \in (DOMAIN plan) \X (1..MaxLines) :
        LET all == plan[i].lines \o plan[i].src
        IN  j <= Len(all) /\ Strip(all[j]) = L}

\* C7: when display_message_with_tables is done, every non-blank line of the
\* reply (rule lines of a table aside) is rendered in exactly one segment, as
\* often as it occurs in the reply: none is lost and none is rendered twice.
C7_NoLineLostOrDuplicated ==
    dpc = "done" =>
        \A n \in DOMAIN content :
            LET L == Strip(content[n])
            IN  (L # <<>> /\ ~PureRule(L)) =>
                    Cardinality(RenderedAt(L)) =
                    Cardinality({m \in DOMAIN content : Strip(content[m]) = L})

\* C8: every data row of every table segment has exactly len(headers) cells.
C8_RowsMatchHeaders ==
    \A i \in DOMAIN plan :
        plan[i].kind = "table" =>
            \A r \in DOMAIN plan[i].rows :
                Len(plan[i].rows[r]) = Len(plan[i].headers)

\* a rendered table with a row written shorter than the header and a row
\* written longer than it, empty cells not counted
C8_Witness ==
    /\ dpc = "done"
    /\ \E i \in DOMAIN plan :
          /\ plan[i].kind = "table"
          /\ \E r \in DOMAIN plan[i].rows :
                Len(Cells(plan[i].src[r + 1])) < Len(plan[i].headers)
          /\ \E r \in DOMAIN plan[i].rows :
                Len(SelectSeq(Cells(plan[i].src[r + 1]), NonEmpty))
                    > Len(plan[i].headers)

\* the row the claim describes for cells c1..cn under k headers
C9_Expected(cells, k) ==
    [i \in 1..k |-> IF i <= Len(cells) THEN cells[i] ELSE <<>>]

\* C9: every data row of a table is the cells of its line, cut on the right
\* to the header width or padded on the right with empty strings, and empty
\* cells inside the row stay where they are.
C9_PadAndTruncateOnly ==
    \A i \in DOMAIN plan :
        plan[i].kind = "table" =>
            \A r \in DOMAIN plan[i].rows :
                plan[i].rows[r] =
                    C9_Expected(Cells(plan[i].src[r + 1]), Len(plan[i].headers))

(***************************************************************************)
(* InputValidator.sanitize_input                                           *)
(***************************************************************************)
\* the characters of the strings given to sanitize_input: a letter, the
\* space, the newline, the characters html.escape rewrites, and "^" for a
\* control character below 32 that is not tab, newline or carriage return
Alphabet == {"a", " ", "\n", "&", "<", ">", "\"", "^"}

Strings == UNION {[1..n -> Alphabet] : n \in 0..MaxStrLen}

\* index of the '>' that closes a tag opened at i: the first '>' after i
\* with no newline before it ('.' does not match a newline); 0 when none
TagEnd(s, i) ==
    LET close == {j \in (i + 1)..Len(s) :
                    /\ s[j] = ">"
                    /\ \A k \in (i + 1)..(j - 1) : s[k] # "\n" /\ s[k] # ">"}
    IN  IF close = {} THEN 0 ELSE CHOOSE j \in close : TRUE

RECURSIVE StripTagsFrom(_, _)
StripTagsFrom(s, i) ==
    IF i > Len(s) THEN <<>>
    ELSE IF s[i] = "<" /\ TagEnd(s, i) # 0 THEN StripTagsFrom(s, TagEnd(s, i) + 1)
    ELSE <<s[i]>> \o StripTagsFrom(s, i + 1)

\* re.sub('<.*?>', '', user_input)
StripTags(s) == StripTagsFrom(s, 1)

\* html.escape of one character
EscapeChar(c) ==
    CASE c = "&"  -> <<"&", "a", "m", "p", ";">>
      [] c = "<"  -> <<"&", "l", "t", ";">>
      [] c = ">"  -> <<"&", "g", "t", ";">>
      [] c = "\"" -> <<"&", "q", "u", "o", "t", ";">>
      [] OTHER    -> <<c>>

RECURSIVE HtmlEscape(_)
\* html.escape(cleaned)
HtmlEscape(s) == IF s = <<>> THEN <<>> ELSE EscapeChar(Head(s)) \o HtmlEscape(Tail(s))

\* ord(char) >= 32 or char in '\t\n\r'
Printable(c) == c # "^"

\* ''.join(char for char in cleaned if ord(char) >= 32 or char in '\t\n\r')
DropControl(s) == SelectSeq(s, Printable)

IsSpace(c) == c \in {" ", "\n"}

RECURSIVE WordsFrom(_, _, _)
WordsFrom(s, i, cur) ==
    IF i > Len(s) THEN (IF cur = <<>> THEN <<>> ELSE <<cur>>)
    ELSE IF IsSpace(s[i])
         THEN (IF cur = <<>> THEN <<>> ELSE <<cur>>) \o WordsFrom(s, i + 1, <<>>)
         ELSE WordsFrom(s, i + 1, Append(cur, s[i]))

\* cleaned.split()
Words(s) == WordsFrom(s, 1, <<>>)

RECURSIVE JoinSpace(_)
\* ' '.join(words)
JoinSpace(ws) ==
    IF ws = <<>> THEN <<>>
    ELSE IF Len(ws) = 1 THEN ws[1]
    ELSE ws[1] \o <<" ">> \o JoinSpace(Tail(ws))

RECURSIVE SquashPairs(_)
\* a variant that only replaces each pair of spaces by one space
SquashPairs(s) ==
    IF Len(s) < 2 THEN s
    ELSE IF s[1] = " " /\ s[2] = " " THEN <<" ">> \o SquashPairs(Tail(Tail(s)))
    ELSE <<s[1]>> \o SquashPairs(Tail(s))

\* ' '.join(cleaned.split())
NormalizeSpace(s) == JoinSpace(Words(s))

\* a variant without the final length limit
TruncateNever(s) == s

\* cleaned[:InputValidator.MAX_INPUT_LENGTH]
Truncate(s) == SubSeq(s, 1, IF Len(s) < MaxInputLength THEN Len(s) ELSE MaxInputLength)

\* InputValidator.sanitize_input
SanitizeInput(s) == Truncate(NormalizeSpace(DropControl(HtmlEscape(StripTags(s)))))

\* re.findall(r'[^a-zA-Z0-9\s\-.,!?\'\"()]', user_input), on the Alphabet
SpecialChar(c) == c \in {"&", "<", ">", "^"}

\* validate_input on a string over the Alphabet: is_valid. No injection or
\* SQL pattern matches such a string, and no word of it exceeds 100
\* characters, so the checks left are: empty, length, special character
\* ratio above 0.3, control characters
ValidateString(s) ==
    /\ \E i \in DOMAIN s : ~IsSpace(s[i])
    /\ Len(s) <= MaxInputLength
    /\ 10 * Cardinality({i \in DOMAIN s : SpecialChar(s[i])}) <= 3 * Len(s)
    /\ \A i \in DOMAIN s : Printable(s[i])

InitSan ==
    /\ RLIdle
    /\ RenderIdle
    /\ AppIdle
    /\ SessIdle
    /\ ValIdle
    /\ ExtIdle
    /\ san_in \in Strings
    /\ san_prev = san_in
    /\ san_out = san_in
    /\ san_n = 0

\* cleaned = sanitize_input(text), applied to the result of the call before
Sanitize ==
    /\ san_n < 2
    /\ san_prev' = san_out
    /\ san_out' = SanitizeInput(san_out)
    /\ san_n' = san_n + 1
    /\ UNCHANGED <<san_in, rlvars, rendervars, appvars, sessvars, valvars, extvars>>

NextSan == Sanitize

SpecSan == InitSan /\ [][NextSan]_vars

(***************************************************************************)
(* Claims about sanitize_input (SpecSan)                                   *)
(***************************************************************************)
\* C10 as stated: sanitize_input(sanitize_input(x)) = sanitize_input(x) for
\* every string x.
C10_IdempotentEverywhere ==
    san_n = 2 => san_out = san_prev

\* C10, amended: sanitize_input(sanitize_input(x)) = sanitize_input(x) for
\* every string x of at most MAX_INPUT_LENGTH characters whose sanitised
\* form contains no '&', that is, when nothing of x had to be HTML-escaped.
C10_IdempotentWithoutEscapes ==
    (san_n = 2 /\ Len(san_in) <= MaxInputLength /\ ~Contains(san_prev, <<"&">>))
        => san_out = san_prev

\* sanitize_input applied twice to a string within the limit that it changes
\* (a tag, a control character or whitespace) and does not escape
C10_Witness ==
    /\ san_n = 2
    /\ Len(san_in) <= MaxInputLength
    /\ ~Contains(san_prev, <<"&">>)
    /\ san_prev # san_in
    /\ san_prev # <<>>

\* C11: for every prompt that validate_input accepts, sanitize_input returns
\* at most MAX_INPUT_LENGTH characters and no control character (below 32,
\* other than tab, newline, carriage return), also when escaping lengthens
\* the text
C11_SanitizedWithinLimit ==
    (san_n = 1 /\ ValidateString(san_in)) =>
        /\ Len(san_out) <= MaxInputLength
        /\ \A i \in DOMAIN san_out : Printable(san_out[i])

\* an accepted prompt whose escaped form is longer than the limit and was
\* cut down to it
C11_Witness ==
    /\ san_n = 1
    /\ ValidateString(san_in)
    /\ Len(HtmlEscape(StripTags(san_in))) > MaxInputLength
    /\ Len(san_out) = MaxInputLength

(***************************************************************************)
(* Decoded JSON and Python values. Every value is a record of one shape:   *)
(*   t   "str", "num", "null", "list", "obj", or "raise" for an exception  *)
(*   s   the text of a str                                                 *)
(*   n   the number of a num, or the number formatted into a str           *)
(*   xs  the elements of a list                                            *)
(*   kv  the <<key, value>> pairs of an obj, keys distinct                 *)
(***************************************************************************)
JStr(s) == [t |-> "str", s |-> s, n |-> 0, xs |-> <<>>, kv |-> <<>>]
JNum(n) == [t |-> "num", s |-> "", n |-> n, xs |-> <<>>, kv |-> <<>>]
JNull == [t |-> "null", s |-> "", n |-> 0, xs |-> <<>>, kv |-> <<>>]
JList(xs) == [t |-> "list", s |-> "", n |-> 0, xs |-> xs, kv |-> <<>>]
JObj(kv) == [t |-> "obj", s |-> "", n |-> 0, xs |-> <<>>, kv |-> kv]
\* an exception of class cls raised while a value was computed
Raised(cls) == [t |-> "raise", s |-> cls, n |-> 0, xs |-> <<>>, kv |-> <<>>]

\* the texts of the model that contain a key as a substring
SubstringFacts == {<<"the text", "text">>, <<"an error", "error">>}

\* key in v: "yes", "no", or "raise" (TypeError: not iterable)
PyIn(key, v) ==
    CASE v.t = "obj"  -> IF \E i \in DOMAIN v.kv : v.kv[i][1] = key THEN "yes" ELSE "no"
      [] v.t = "list" -> IF \E i \in DOMAIN v.xs : v.xs[i] = JStr(key) THEN "yes" ELSE "no"
      [] v.t = "str"  -> IF v.s = key \/ <<v.s, key>> \in SubstringFacts
                         THEN "yes" ELSE "no"
      [] OTHER        -> "raise"

\* v[key] for a str key: the value, or KeyError / TypeError
PyGet(v, key) ==
    IF v.t = "obj"
    THEN IF \E i \in DOMAIN v.kv : v.kv[i][1] = key
         THEN v.kv[CHOOSE i \in DOMAIN v.kv : v.kv[i][1] = key][2]
         ELSE Raised("KeyError")
    ELSE Raised("TypeError")

\* v[0]; only used on a list known to be non-empty
PyFirst(v) == IF v.t = "list" /\ v.xs # <<>> THEN v.xs[1] ELSE Raised("TypeError")

\* key in d and isinstance(d[key], list) and len(d[key]) > 0
HasNonEmptyList(d, key) ==
    IF PyIn(key, d) # "yes" THEN PyIn(key, d)
    ELSE IF PyGet(d, key).t = "raise" THEN "raise"
    ELSE IF PyGet(d, key).t = "list" /\ PyGet(d, key).xs # <<>> THEN "yes"
    ELSE "no"

(***************************************************************************)
(* extract_message_from_response                                           *)
(***************************************************************************)
\* json.dumps(response_data, indent=2)
JsonDump == JStr("json.dumps(response_data, indent=2)")

\* f"Error extracting message: {str(e)}\nRaw response: {str(response_data)[:200]}..."
ExtractError == JStr("Error extracting message")

\* Path 1b on inner_output: the returned value, Raised(..), or "none" when
\* the path is absent
ResultsPath(inner) ==
    IF PyIn("results", inner) = "raise" THEN Raised("TypeError")
    ELSE IF PyIn("results", inner) = "no" THEN JStr("none")
    ELSE LET results == PyGet(inner, "results")
         IN  IF results.t = "raise" THEN results
             ELSE IF PyIn("message", results) = "raise" THEN Raised("TypeError")
             ELSE IF PyIn("message", results) = "no" THEN JStr("none")
             ELSE LET message_obj == PyGet(results, "message")
                  IN  IF message_obj.t = "raise" THEN message_obj
                      ELSE IF PyIn("text", message_obj) = "raise" THEN Raised("TypeError")
                      ELSE IF PyIn("text", message_obj) = "yes"
                           THEN PyGet(message_obj, "text")
                      ELSE IF PyIn("data", message_obj) = "no" THEN JStr("none")
                      ELSE LET data == PyGet(message_obj, "data")
                           IN  IF data.t = "raise" THEN data
                               ELSE IF PyIn("text", data) = "raise" THEN Raised("TypeError")
                               ELSE IF PyIn("text", data) = "yes" THEN PyGet(data, "text")
                               ELSE JStr("none")

\* a variant that tries Path 1b before Path 1a
InnerPathResultsFirst(inner) ==
    IF ResultsPath(inner) # JStr("none") THEN ResultsPath(inner)
    ELSE IF HasNonEmptyList(inner, "messages") = "raise" THEN Raised("TypeError")
    ELSE IF HasNonEmptyList(inner, "messages") = "yes"
         THEN PyGet(PyFirst(PyGet(inner, "messages")), "message")
    ELSE JStr("none")

\* Paths 1a and 1b on inner_output
InnerPath(inner) ==
    IF HasNonEmptyList(inner, "messages") = "raise" THEN Raised("TypeError")
    ELSE IF HasNonEmptyList(inner, "messages") = "yes"
         THEN PyGet(PyFirst(PyGet(inner, "messages")), "message")
    ELSE ResultsPath(inner)

\* the body of the try block: the returned value or Raised(..)
ExtractTry(response_data) ==
    LET Fallback(found) == IF found = JStr("none") THEN JsonDump ELSE found
    IN  IF HasNonEmptyList(response_data, "outputs") = "raise" THEN Raised("TypeError")
        ELSE IF HasNonEmptyList(response_data, "outputs") = "no" THEN JsonDump
        ELSE LET first_output == PyFirst(PyGet(response_data, "outputs"))
             IN  IF HasNonEmptyList(first_output, "outputs") = "raise"
                 THEN Raised("TypeError")
                 ELSE IF HasNonEmptyList(first_output, "outputs") = "no" THEN JsonDump
                 ELSE Fallback(InnerPath(PyFirst(PyGet(first_output, "outputs"))))

\* extract_message_from_response: except Exception returns the diagnostic
ExtractMessage(response_data) ==
    IF ExtractTry(response_data).t = "raise" THEN ExtractError
    ELSE ExtractTry(response_data)

\* the envelope {"outputs": [{"outputs": [inner]}]}
Envelope(inner) ==
    JObj(<< <<"outputs", JList(<< JObj(<< <<"outputs", JList(<<inner>>)>> >>) >>)>> >>)

\* decoded response bodies of the upstream
Envelopes == <<
    Envelope(JObj(<< <<"messages", JList(<< JObj(<< <<"message", JStr("hello")>> >>) >>)>> >>)),
    Envelope(JObj(<< <<"messages", JList(<< JObj(<< <<"message", JNull>> >>) >>)>> >>)),
    Envelope(JObj(<< <<"results", JObj(<< <<"message", JObj(<< <<"text", JStr("the text")>> >>)>> >>)>> >>)),
    JObj(<< <<"error", JStr("an error")>> >>),
    JNum(5) >>

(***************************************************************************)
(* InputValidator.validate_input. A prompt is the set of the checks it     *)
(* would trip, each taken alone.                                           *)
(***************************************************************************)
Features == {"empty", "long", "xss", "sql", "special", "ctrl", "longword"}

Prompt(fs) == [f \in Features |-> f \in fs]

\* the prompts typed into st.chat_input
Prompts == {Prompt({}), Prompt({"xss"})}

\* a variant that looks for the patterns before the other checks
ValidateInputPatternsFirst(p) ==
    IF p["xss"]
    THEN [ok |-> FALSE,
          msg |-> "Invalid input detected. Please remove any code or scripts."]
    ELSE IF p["sql"]
    THEN [ok |-> FALSE,
          msg |-> "Invalid input detected. Please remove any SQL commands."]
    ELSE IF p["empty"] THEN [ok |-> FALSE, msg |-> "Input cannot be empty"]
    ELSE IF p["long"]
    THEN [ok |-> FALSE, msg |-> "Input exceeds maximum length of 5000 characters"]
    ELSE IF p["special"]
    THEN [ok |-> FALSE, msg |-> "Input contains too many special characters"]
    ELSE IF p["ctrl"] THEN [ok |-> FALSE, msg |-> "Invalid input detected"]
    ELSE IF p["longword"]
    THEN [ok |-> FALSE, msg |-> "Input contains excessively long words"]
    ELSE [ok |-> TRUE, msg |-> ""]

\* validate_input: the checks in the order of the code, the first hit returns
ValidateInput(p) ==
    IF p["empty"] THEN [ok |-> FALSE, msg |-> "Input cannot be empty"]
    ELSE IF p["long"]
    THEN [ok |-> FALSE, msg |-> "Input exceeds maximum length of 5000 characters"]
    ELSE IF p["xss"]
    THEN [ok |-> FALSE,
          msg |-> "Invalid input detected. Please remove any code or scripts."]
    ELSE IF p["sql"]
    THEN [ok |-> FALSE,
          msg |-> "Invalid input detected. Please remove any SQL commands."]
    ELSE IF p["special"]
    THEN [ok |-> FALSE, msg |-> "Input contains too many special characters"]
    ELSE IF p["ctrl"] THEN [ok |-> FALSE, msg |-> "Invalid input detected"]
    ELSE IF p["longword"]
    THEN [ok |-> FALSE, msg |-> "Input contains excessively long words"]
    ELSE [ok |-> TRUE, msg |-> ""]

(***************************************************************************)
(* RateLimiter.get_wait_time and SecurityLogger.get_safe_error_message     *)
(***************************************************************************)
MinOf(list) == CHOOSE m \in {list[i] : i \in DOMAIN list} :
                   \A i \in DOMAIN list : m <= list[i]

\* a variant without max(0, ...)
WaitTimeNoClamp(reqs, u, now, max) ==
    LET user_requests == BucketOf(reqs, u)
    IN  IF Len(user_requests) < max THEN 0
        ELSE MinOf(user_requests) + Window - now

\* get_wait_time: max(0, int((oldest + window - now).total_seconds()))
WaitTime(reqs, u, now, max) ==
    LET user_requests == BucketOf(reqs, u)
        wait == IF Len(user_requests) < max THEN 0
                ELSE MinOf(user_requests) + Window - now
    IN  IF wait < 0 THEN 0 ELSE wait

\* error_mappings, in the order of the dict
ErrorMappings == <<
    <<"timeout", "The request took too long. Please try again.">>,
    <<"connection", "Connection error. Please check your internet connection.">>,
    <<"network", "Network error. Please check your internet connection.">>,
    <<"unauthorized", "Access denied. Please check your permissions.">>,
    <<"forbidden", "Access denied. Please check your permissions.">>,
    <<"not found", "The requested resource was not found.">>,
    <<"rate limit", "Too many requests. Please wait a moment before trying again.">>,
    <<"invalid input", "Invalid input provided. Please check your data.">>,
    <<"file not found", "The requested file was not found.">>,
    <<"permission denied", "Permission denied. Please check your access rights.">>,
    <<"service unavailable", "Service temporarily unavailable. Please try again later.">> >>

\* get_safe_error_message; kw is the set of the keywords that occur in
\* str(error).lower()
SafeErrorMessage(kw) ==
    LET hits == {i \in DOMAIN ErrorMappings : ErrorMappings[i][1] \in kw}
    IN  IF hits = {} THEN "An error occurred. Please try again later."
        ELSE ErrorMappings[CHOOSE i \in hits : \A j \in hits : i <= j][2]

(***************************************************************************)
(* The upstream, as seen by one requests.post call                         *)
(***************************************************************************)
\* a response body that is not JSON
NotJson == [t |-> "notjson", s |-> "", n |-> 0, xs |-> <<>>, kv |-> <<>>]

\* requests.post raises an exception of class cls whose text holds kw
Exc(cls, kw) ==
    [kind |-> "exc", cls |-> cls, kw |-> kw, status |-> 0, body |-> NotJson]

\* requests.post returns a response with a status and a decoded body; cls
\* is the class of the error response.json() raises for NotJson, which is
\* a RequestException or a plain ValueError with the installed requests
Http(status, body, cls) ==
    [kind |-> "http", cls |-> cls, kw |-> {}, status |-> status, body |-> body]

RedirectStatuses == {301, 302, 303, 307, 308}

\* what the upstream does to a POST of the session
Responses ==
    {Exc("Timeout", {"timeout"}), Http(404, NotJson, "ValueError"),
     Http(302, NotJson, "ValueError"), Http(200, NotJson, "ValueError")}
    \cup {Http(200, Envelopes[b], "ValueError") : b \in {1, 2}}

\* the keywords in str(HTTPError) of raise_for_status,
\* "<status> Client Error: <reason> for url: <url>"
HttpErrorKeywords(status) == IF status = 404 THEN {"not found"} ELSE {}

(***************************************************************************)
(* query_langflow_api                                                      *)
(***************************************************************************)
\* a variant that forwards every prompt that is not rate limited
QueryGateNoValidation(allowed, valid) ==
    IF ~allowed THEN "rate_limited" ELSE "post"

\* the two early returns before the request is built
QueryGate(allowed, valid) ==
    IF ~allowed THEN "rate_limited"
    ELSE IF ~valid THEN "invalid"
    ELSE "post"

\* the dict query_langflow_api returns: {"error": v}, or the envelope v
ErrorDict(v) == [error |-> TRUE, v |-> v]

UnexpectedError == ErrorDict(JStr("An unexpected error occurred. Please try again."))

\* the try block after the last requests.post, and its except clauses
QueryReturn(resp) ==
    IF resp.kind = "exc" THEN ErrorDict(JStr(SafeErrorMessage(resp.kw)))
    ELSE IF resp.status >= 400 /\ resp.status < 600
    THEN ErrorDict(JStr(SafeErrorMessage(HttpErrorKeywords(resp.status))))
    ELSE IF resp.body = NotJson
    THEN IF resp.cls = "RequestException"
         THEN ErrorDict(JStr(SafeErrorMessage({})))
         ELSE ErrorDict(JStr("Invalid response from server. Please try again."))
    ELSE LET full_response == resp.body
         IN  IF PyIn("error", full_response) = "raise" THEN UnexpectedError
             ELSE IF PyIn("error", full_response) = "no"
             THEN [error |-> FALSE, v |-> full_response]
             ELSE IF PyGet(full_response, "error").t = "raise" THEN UnexpectedError
             ELSE ErrorDict(PyGet(full_response, "error"))

\* display_message_with_tables(content): "|" in content raises TypeError,
\* outside the try block, for a content that is not iterable
DisplayRaises(v) == PyIn("|", v) = "raise"

(***************************************************************************)
(* One browser session. A script run is one step, except the chat turn     *)
(* handler, which waits in requests.post for the upstream; until the call  *)
(* returns the session may receive further interactions. A turn is         *)
(*   [key, prompt, allowed, wait, st, interrupted]                         *)
(* with st "post1" (waiting for the first POST), "post2" (waiting for the  *)
(* POST repeated after a redirect), "done" (handler ran to its end),       *)
(* "raised" (an exception left the handler) or "stopped" (the host ended   *)
(* the run); wait is what get_wait_time returned to the turn, 0 when it    *)
(* was not called.                                                         *)
(***************************************************************************)
\* RateLimiter._get_user_id() of the session
SessionUser == "u1"

InFlight(t) == turns[t].st \in {"post1", "post2"}

UserMessage(t, prompt) ==
    [role |-> "user", turn |-> t, sorry |-> FALSE, content |-> prompt]

\* sorry: the content is f"Sorry, I encountered an error: {v}"
AssistantMessage(t, sorry, v) ==
    [role |-> "assistant", turn |-> t, sorry |-> sorry, content |-> v]

\* f"Too many requests. Please wait {wait_time} seconds before trying again."
TooManyRequests(wait_time) ==
    [JStr("Too many requests. Please wait {wait_time} seconds before trying again.")
        EXCEPT !.n = wait_time]

Init ==
    /\ clock = 0
    /\ max_requests \in 1..MaxM
    /\ requests = NoRequests
    /\ thr = [t \in Threads |-> IdleThread]
    /\ calls = <<>>
    /\ RenderIdle
    /\ SanIdle
    /\ AppIdle
    /\ SessIdle
    /\ ValIdle
    /\ ExtIdle

\* the sidebar: a navigation button is pressed
Navigate(p) ==
    /\ page' = p
    /\ processing' = FALSE
    /\ turns' = [t \in DOMAIN turns |->
                    IF InFlight(t) THEN [turns[t] EXCEPT !.interrupted = TRUE]
                    ELSE turns[t]]
    /\ UNCHANGED <<messages, posts, rlvars, rendervars, sanvars, sessvars,
                   valvars, extvars>>

\* the chat turn handler up to the first requests.post, or to its end when
\* query_langflow_api returns early
TurnBegin(prompt) ==
    /\ page \in ChatPages
    /\ ~processing
    /\ Len(turns) < MaxTurns
    /\ LET t == Len(turns) + 1
           r == CheckAndRecord(CleanOld(requests, clock), SessionUser, clock,
                               max_requests)
           gate == QueryGate(r[1], ValidateInput(prompt).ok)
           wait_time == IF gate = "rate_limited"
                        THEN WaitTime(r[2], SessionUser, clock, max_requests)
                        ELSE 0
           turn == [key |-> page, prompt |-> prompt, allowed |-> r[1],
                    wait |-> wait_time,
                    st |-> IF gate = "post" THEN "post1" ELSE "done",
                    interrupted |-> FALSE]
           error == IF gate = "rate_limited" THEN TooManyRequests(wait_time)
                    ELSE JStr(ValidateInput(prompt).msg)
           log == Append(messages[page], UserMessage(t, prompt))
       IN  /\ requests' = r[2]
           /\ turns' = Append(turns, turn)
           /\ processing' = (gate = "post")
           /\ messages' = [messages EXCEPT ![page] =
                  IF gate = "post" THEN log
                  ELSE Append(log, AssistantMessage(t, TRUE, error))]
           /\ posts' = IF gate = "post"
                       THEN Append(posts, [turn |-> t, key |-> page,
                                           allow_redirects |-> FALSE])
                       ELSE posts
    /\ UNCHANGED <<page, clock, max_requests, thr, calls, rendervars, sanvars, sessvars,
                   valvars, extvars>>

\* the first POST returns a redirect status: the POST is repeated
Redirected(t) ==
    /\ t \in DOMAIN turns
    /\ turns[t].st = "post1"
    /\ turns' = [turns EXCEPT ![t].st = "post2"]
    /\ posts' = Append(posts, [turn |-> t, key |-> turns[t].key,
                               allow_redirects |-> TRUE])
    /\ UNCHANGED <<page, processing, messages, rlvars, rendervars, sanvars, sessvars,
                   valvars, extvars>>

\* a variant that reads st.session_state["page"] when the reply is appended
ConversationOfCurrentPage(t) == page

\* current_page, the local variable of the run that started turn t
ConversationOf(t) == turns[t].key

\* the last POST of the turn returns or raises, and the handler runs on
TurnEnd(t, resp) ==
    /\ t \in DOMAIN turns
    /\ InFlight(t)
    /\ ~(turns[t].st = "post1" /\ resp.kind = "http"
                               /\ resp.status \in RedirectStatuses)
    /\ LET response_data == QueryReturn(resp)
           response_text == IF response_data.error THEN response_data.v
                            ELSE ExtractMessage(response_data.v)
       IN  IF ~response_data.error /\ DisplayRaises(response_text)
           THEN /\ turns' = [turns EXCEPT ![t].st = "raised"]
                /\ UNCHANGED <<messages, processing>>
           ELSE /\ turns' = [turns EXCEPT ![t].st = "done"]
                /\ messages' = [messages EXCEPT ![ConversationOf(t)] =
                       Append(@, AssistantMessage(t, response_data.error,
                                                  response_text))]
                /\ processing' = FALSE
    /\ UNCHANGED <<page, posts, rlvars, rendervars, sanvars, sessvars,
                   valvars, extvars>>

\* the host stops the run of a turn at its first st call after the POST,
\* because the session has received another interaction meanwhile
TurnStopped(t) ==
    /\ t \in DOMAIN turns
    /\ InFlight(t)
    /\ turns[t].interrupted
    /\ turns' = [turns EXCEPT ![t].st = "stopped"]
    /\ UNCHANGED <<page, processing, messages, posts, rlvars, rendervars, sanvars, sessvars,
                   valvars, extvars>>

Next ==
    \/ Tick
    \/ \E p \in Visited : Navigate(p)
    \/ \E prompt \in Prompts : TurnBegin(prompt)
    \/ \E t \in 1..MaxTurns : Redirected(t)
    \/ \E t \in 1..MaxTurns, resp \in Responses : TurnEnd(t, resp)
    \/ \E t \in 1..MaxTurns : TurnStopped(t)

Spec == Init /\ [][Next]_vars

(***************************************************************************)
(* Claims about the chat turn                                              *)
(***************************************************************************)
\* C3: a POST is issued only in a turn in which is_allowed returned true
\* and validate_input accepted the prompt; a rate-limited turn and a turn
\* with a rejected prompt issue no POST
C3_PostOnlyWhenAllowedAndValid ==
    \A i \in DOMAIN posts :
        /\ turns[posts[i].turn].allowed
        /\ ValidateInput(turns[posts[i].turn].prompt).ok

\* a turn that reached the upstream next to a rate-limited turn
C3_Witness ==
    /\ posts # <<>>
    /\ \E t \in DOMAIN turns :
          /\ ~turns[t].allowed
          /\ \A i \in DOMAIN posts : posts[i].turn # t

\* C4: whenever no turn is in flight, every message log alternates user,
\* assistant, user, assistant, ...: it has even length and each user
\* message is directly followed by the assistant message of its own turn
C4_StrictAlternation ==
    (\A t \in DOMAIN turns : ~InFlight(t)) =>
        \A k \in ChatPages :
            /\ Len(messages[k]) % 2 = 0
            /\ \A i \in DOMAIN messages[k] :
                  i % 2 = 1 =>
                      /\ messages[k][i].role = "user"
                      /\ i + 1 <= Len(messages[k])
                      /\ messages[k][i + 1].role = "assistant"
                      /\ messages[k][i + 1].turn = messages[k][i].turn

\* C5: at most one turn of the session is in flight, and the processing
\* flag is true exactly while a turn is in flight, whatever else the user
\* does meanwhile
C5_OneTurnInFlight ==
    /\ Cardinality({t \in DOMAIN turns : InFlight(t)}) <= 1
    /\ processing <=> (\E t \in DOMAIN turns : InFlight(t))

\* the assistant messages of turn t in the log of its conversation
AssistantOf(t) ==
    {messages[turns[t].key][i] : i \in
        {j \in DOMAIN messages[turns[t].key] :
            /\ messages[turns[t].key][j].role = "assistant"
            /\ messages[turns[t].key][j].turn = t}}

\* C12: for a prompt rejected by an injection pattern, the assistant
\* message appended for the turn is exactly the reject reason "Invalid
\* input detected. Please remove any code or scripts.", nothing before it
C12_InjectionReasonExact ==
    \A t \in DOMAIN turns :
        (/\ turns[t].allowed
         /\ ValidateInput(turns[t].prompt).msg =
                "Invalid input detected. Please remove any code or scripts.")
        => \E m \in AssistantOf(t) :
              /\ ~m.sorry
              /\ m.content =
                    JStr("Invalid input detected. Please remove any code or scripts.")

\* C13: for a turn denied by the rate limiter, the assistant message
\* appended for the turn begins with "Too many requests. Please wait "
\* followed by the value get_wait_time returned
C13_RateLimitMessage ==
    \A t \in DOMAIN turns :
        ~turns[t].allowed
        => \E m \in AssistantOf(t) :
              /\ ~m.sorry
              /\ m.content = TooManyRequests(turns[t].wait)

C6_OneAssistantMessagePerTurn ==
    \A t \in DOMAIN turns :
        /\ turns[t].st # "raised"
        /\ turns[t].st = "done" =>
              Cardinality({i \in DOMAIN messages[turns[t].key] :
                  /\ messages[turns[t].key][i].role = "assistant"
                  /\ messages[turns[t].key][i].turn = t}) = 1


(***************************************************************************)
(* SessionManager and SecurityLogger. The identifiers (uuid4,              *)
(* token_urlsafe, the sha256 of fresh entropy) are drawn from one counter, *)
(* next_id: a generator never returns a value it returned before. A        *)
(* bundle b is [session, logs, next_id], the part of st.session_state and  *)
(* of the generators these functions read and write.                       *)
(***************************************************************************)
\* an entry of security_logs
Event(type, severity) == [type |-> type, severity |-> severity]

\* a variant that keeps the oldest entries, list[:n]
FirstN(list, n) ==
    IF Len(list) <= n THEN list ELSE SubSeq(list, 1, n)

\* list[-n:]
LastN(list, n) ==
    IF Len(list) <= n THEN list ELSE SubSeq(list, Len(list) - n + 1, Len(list))

\* log_security_event(event_type, details, severity)
LogSecurityEvent(logs, event_type, severity) ==
    LastN(Append(logs, Event(event_type, severity)), MaxLogEntries)

RECURSIVE LogAll(_, _)
\* the log_security_event calls of one code path, in order
LogAll(logs, events) ==
    IF events = <<>> THEN logs
    ELSE LogAll(LogSecurityEvent(logs, Head(events).type, Head(events).severity),
                Tail(events))

\* a variant without the test for "session_start"
InitializeSessionAlways(b, now) ==
    [session |-> [exists |-> TRUE, session_start |-> now, last_activity |-> now,
                  session_token |-> b.next_id, session_id |-> b.next_id + 1,
                  session_integrity_hash |-> b.next_id + 2,
                  user_id |-> b.session.user_id],
     logs |-> LogSecurityEvent(b.logs, "session_created", "INFO"),
     next_id |-> b.next_id + 3]

\* initialize_session
InitializeSession(b, now) ==
    IF b.session.exists THEN b
    ELSE [session |-> [exists |-> TRUE, session_start |-> now,
                       last_activity |-> now, session_token |-> b.next_id,
                       session_id |-> b.next_id + 1,
                       session_integrity_hash |-> b.next_id + 2,
                       user_id |-> b.session.user_id],
          logs |-> LogSecurityEvent(b.logs, "session_created", "INFO"),
          next_id |-> b.next_id + 3]

\* a variant that expires a session idle for exactly the timeout
CheckSessionTimeoutInclusive(s, now) ==
    \/ ~s.exists
    \/ now - s.last_activity >= SessionTimeout

\* check_session_timeout: "last_activity" not in st.session_state, or
\* elapsed > timeout_seconds
CheckSessionTimeout(s, now) ==
    \/ ~s.exists
    \/ now - s.last_activity > SessionTimeout

\* update_activity
UpdateActivity(s, now) == [s EXCEPT !.last_activity = now]

\* a variant that keeps "user_id" next to "page" and "debug_mode"
ClearSessionKeepUser(b, now) ==
    InitializeSession([session |-> [NoSession EXCEPT !.user_id = b.session.user_id],
                       logs |-> <<>>, next_id |-> b.next_id], now)

\* a variant of clear_session that leaves "security_logs" in place
ClearSessionKeepLogs(b, now) ==
    InitializeSession([session |-> NoSession,
                       logs |-> LogSecurityEvent(b.logs, "session_destroyed", "INFO"),
                       next_id |-> b.next_id], now)

\* clear_session: session_destroyed goes to the log that is deleted with
\* every other key; initialize_session then starts the log of the new
\* session
ClearSession(b, now) ==
    InitializeSession([session |-> NoSession, logs |-> <<>>,
                       next_id |-> b.next_id], now)

\* a variant of the loop of clear_session that spares "messages"
ClearedKeysKeepMessages(msgs, reqs) ==
    [messages |-> msgs, requests |-> NoRequests, processing |-> FALSE]

\* a variant of the loop of clear_session that spares "rate_limiter"
ClearedKeysKeepLimiter(msgs, reqs) ==
    [messages |-> [k \in ChatPages |-> <<>>], requests |-> reqs,
     processing |-> FALSE]

\* the loop of clear_session deletes "messages", "rate_limiter" and
\* "processing" with the other keys: what the next run, which creates the
\* absent keys anew, finds in them
ClearedKeys(msgs, reqs) ==
    [messages |-> [k \in ChatPages |-> <<>>], requests |-> NoRequests,
     processing |-> FALSE]

\* RateLimiter._get_user_id
GetUserId(b) ==
    IF b.session.user_id # 0 THEN b
    ELSE [b EXCEPT !.session.user_id = b.next_id, !.next_id = b.next_id + 1]

\* what is_allowed, validate_input and query_langflow_api log before the
\* request is built
GateEvents(gate, prompt, debug) ==
    IF gate = "rate_limited"
    THEN <<Event("rate_limit_exceeded", "INFO"), Event("rate_limit_exceeded", "INFO")>>
    ELSE IF gate = "invalid"
    THEN (IF ValidateInput(prompt).msg =
                 "Invalid input detected. Please remove any code or scripts."
          THEN <<Event("xss_attempt", "INFO")>>
          ELSE IF ValidateInput(prompt).msg =
                      "Invalid input detected. Please remove any SQL commands."
          THEN <<Event("sql_injection_attempt", "INFO")>>
          ELSE <<>>)
         \o <<Event("input_validation_failed", "INFO")>>
    ELSE IF debug THEN <<Event("api_request_details", "INFO")>>
    ELSE <<>>

\* what the try block after the last requests.post logs
QueryEvents(resp) ==
    IF resp.kind = "exc"
    THEN IF resp.cls = "Timeout" THEN <<Event("api_timeout", "ERROR")>>
         ELSE <<Event("api_request_error", "ERROR")>>
    ELSE IF resp.status >= 400 /\ resp.status < 600
    THEN <<Event("api_request_error", "ERROR")>>
    ELSE IF resp.body = NotJson
    THEN IF resp.cls = "RequestException"
         THEN <<Event("api_request_error", "ERROR")>>
         ELSE <<Event("response_parsing_error", "ERROR")>>
    ELSE IF \/ PyIn("error", resp.body) = "raise"
            \/ /\ PyIn("error", resp.body) = "yes"
               /\ PyGet(resp.body, "error").t = "raise"
    THEN <<Event("api_call_success", "INFO"), Event("unexpected_error", "ERROR")>>
    ELSE <<Event("api_call_success", "INFO")>>

(***************************************************************************)
(* The configuration                                                       *)
(***************************************************************************)
\* what st.secrets may hold: every endpoint, no "api" or no "endpoints",
\* one endpoint missing, no endpoint at all
Configs ==
    {FullConfig,
     [present |-> FALSE, endpoints |-> {}],
     [present |-> TRUE, endpoints |-> ChatPages \ {"SWOT Generation"}],
     [present |-> TRUE, endpoints |-> {}]}

\* a variant that misses nothing
MissingEndpointsNone(cfg) == {}

\* missing_endpoints
MissingEndpoints(cfg) == ChatPages \ cfg.endpoints

\* the script passes the two st.stop() of the configuration check
ConfigOk(cfg) == cfg.present /\ MissingEndpoints(cfg) = {}


(***************************************************************************)
(* One browser session, script run by script run. The host runs the        *)
(* script of a session one run at a time, from its first line: the         *)
(* prelude (initialize_session, the timeout check, update_activity, the    *)
(* defaults of the absent keys, the configuration check), then the widget  *)
(* whose event started the run. A run is one step, except the run of a     *)
(* chat turn, which waits in requests.post; an interaction that arrives    *)
(* meanwhile makes the host stop that run at its next st call and is       *)
(* served by the run after it. A turn is                                   *)
(*   [key, prompt, allowed, wait, st, interrupted, first, resp]            *)
(* as in Spec, with st "rerun" after the handler has called st.rerun(),    *)
(* until that run has taken place, first the outcome of its first POST     *)
(* and resp the outcome of its last POST.                                  *)
(* clear_session has a second call site in test_session_isolation, under   *)
(* a button drawn only in the run in which the button around it was        *)
(* pressed: the run in which the inner button is pressed does not reach    *)
(* it, and the call is never made.                                         *)
(***************************************************************************)
\* the prompts typed into st.chat_input
SessionPrompts == {Prompt({}), Prompt({"xss"}), Prompt({"sql"})}

\* what the upstream does to a POST of the session
SessionResponses ==
    {Exc("Timeout", {"timeout"}), Exc("Timeout", {}),
     Http(302, NotJson, "ValueError"), Http(200, Envelopes[1], "ValueError"),
     Http(300, Envelopes[1], "ValueError"), Http(200, Envelopes[4], "ValueError")}

\* a variant that repeats the POST after every 3xx status
IsRedirectAny3xx(resp) ==
    resp.kind = "http" /\ resp.status >= 300 /\ resp.status < 400

\* response.status_code in (301, 302, 303, 307, 308)
IsRedirect(resp) == resp.kind = "http" /\ resp.status \in RedirectStatuses

\* the buttons the user of SpecSession presses
SessionVisited == {"Home", "Furze"}

\* no POST has returned yet
NoResponse == Exc("none", {})

\* session_id, session_token and user_id of a session
Identifiers(s) == {s.session_id, s.session_token, s.user_id} \ {0}

\* a variant that calls update_activity before check_session_timeout
PreludeUpdateFirst(now) ==
    LET b0 == [session |-> session, logs |-> security_logs, next_id |-> next_id]
        b1 == InitializeSession(b0, now)
        updated == UpdateActivity(b1.session, now)
        expired == CheckSessionTimeout(updated, now)
        check == [called |-> TRUE, elapsed |-> now - updated.last_activity,
                  result |-> expired]
        b2 == [b1 EXCEPT !.logs = LogSecurityEvent(@, "session_timeout", "INFO")]
    IN  IF expired
        THEN [b |-> ClearSession(b2, now), old |-> b1.session,
              expired |-> TRUE, check |-> check]
        ELSE [b |-> [b1 EXCEPT !.session = updated],
              old |-> b1.session, expired |-> FALSE, check |-> check]

\* the lines of the script from initialize_session to update_activity
Prelude(now) ==
    LET b0 == [session |-> session, logs |-> security_logs, next_id |-> next_id]
        b1 == InitializeSession(b0, now)
        expired == CheckSessionTimeout(b1.session, now)
        check == [called |-> TRUE, elapsed |-> now - b1.session.last_activity,
                  result |-> expired]
        b2 == [b1 EXCEPT !.logs = LogSecurityEvent(@, "session_timeout", "INFO")]
    IN  IF expired
        THEN [b |-> ClearSession(b2, now), old |-> b1.session,
              expired |-> TRUE, check |-> check]
        ELSE [b |-> [b1 EXCEPT !.session = UpdateActivity(@, now)],
              old |-> b1.session, expired |-> FALSE, check |-> check]

InitSession ==
    /\ clock = 0
    /\ max_requests = 1
    /\ requests = NoRequests
    /\ thr = [t \in Threads |-> IdleThread]
    /\ calls = <<>>
    /\ RenderIdle
    /\ SanIdle
    /\ AppIdle
    /\ session = NoSession
    /\ security_logs = <<>>
    /\ debug_mode = FALSE
    /\ config \in Configs
    /\ next_id = 1
    /\ destroyed = <<>>
    /\ timeout_check = NoCheck
    /\ logged = <<>>
    /\ ValIdle
    /\ ExtIdle

\* the turns whose handler has called st.rerun() have had their rerun
Rerun(ts) ==
    [t \in DOMAIN ts |-> IF ts[t].st = "rerun" THEN [ts[t] EXCEPT !.st = "done"]
                         ELSE ts[t]]

\* the session keys and the log after a run
Keep(b) ==
    /\ session' = b.session
    /\ security_logs' = b.logs
    /\ next_id' = b.next_id

\* one run of the script: it stops after clear_session when the session
\* has expired, stops at the configuration check when an endpoint is
\* missing, and else goes on to the widgets, body, with the session keys
\* the prelude has left
Script(body) ==
    /\ \A t \in DOMAIN turns : ~InFlight(t)
    /\ LET pre == Prelude(clock)
       IN  /\ timeout_check' = pre.check
           /\ IF pre.expired
              THEN /\ destroyed' = Append(destroyed, pre.old)
                   /\ Keep(pre.b)
                   /\ requests' = ClearedKeys(messages, requests).requests
                   /\ messages' = ClearedKeys(messages, requests).messages
                   /\ processing' = ClearedKeys(messages, requests).processing
                   /\ turns' = Rerun(turns)
                   /\ UNCHANGED <<page, posts, debug_mode>>
              ELSE /\ destroyed' = destroyed
                   /\ IF ConfigOk(config)
                      THEN body
                      ELSE /\ Keep(pre.b)
                           /\ turns' = Rerun(turns)
                           /\ UNCHANGED <<requests, page, processing, messages,
                                          posts, debug_mode>>
    /\ UNCHANGED <<clock, max_requests, thr, calls, config, logged, rendervars,
                   sanvars, valvars, extvars>>

\* no turn waits for the run its handler asked for with st.rerun()
NoRerunPending == \A t \in DOMAIN turns : turns[t].st # "rerun"

\* a run without a widget event: the first run of the session, a rerun
\* asked for by the user or by st.rerun()
ScriptRerun ==
    LET Body(b) ==
            /\ Keep(b)
            /\ turns' = Rerun(turns)
            /\ UNCHANGED <<requests, page, processing, messages, posts, debug_mode>>
    IN  Script(Body(Prelude(clock).b))

\* the run after a navigation button was pressed
ScriptNavigate(p) ==
    LET Body(b) ==
            /\ Keep(b)
            /\ page' = p
            /\ processing' = FALSE
            /\ UNCHANGED <<requests, messages, turns, posts, debug_mode>>
    IN  /\ session.exists
        /\ ConfigOk(config)
        /\ NoRerunPending
        /\ Script(Body(Prelude(clock).b))

\* the run after "Toggle Debug Mode" was pressed
ScriptToggleDebug ==
    LET Body(b) ==
            /\ Keep(b)
            /\ debug_mode' = ~debug_mode
            /\ UNCHANGED <<requests, page, processing, messages, turns, posts>>
    IN  /\ session.exists
        /\ ConfigOk(config)
        /\ NoRerunPending
        /\ Script(Body(Prelude(clock).b))

\* the run after a prompt was submitted: the chat turn handler up to the
\* first requests.post, or to its st.rerun() when query_langflow_api
\* returns early
ScriptChat(prompt) ==
    LET Body(b) ==
            LET t == Len(turns) + 1
                b1 == GetUserId(b)
                r == CheckAndRecord(CleanOld(requests, clock), SessionUser,
                                    clock, max_requests)
                gate == QueryGate(r[1], ValidateInput(prompt).ok)
                wait_time == IF gate = "rate_limited"
                             THEN WaitTime(r[2], SessionUser, clock, max_requests)
                             ELSE 0
                turn == [key |-> page, prompt |-> prompt, allowed |-> r[1],
                         wait |-> wait_time,
                         st |-> IF gate = "post" THEN "post1" ELSE "rerun",
                         interrupted |-> FALSE, first |-> NoResponse,
                         resp |-> NoResponse]
                error == IF gate = "rate_limited" THEN TooManyRequests(wait_time)
                         ELSE JStr(ValidateInput(prompt).msg)
                log == Append(messages[page], UserMessage(t, prompt))
            IN  /\ session' = b1.session
                /\ next_id' = b1.next_id
                /\ security_logs' =
                       LogAll(b1.logs, GateEvents(gate, prompt, debug_mode))
                /\ requests' = r[2]
                /\ turns' = Append(turns, turn)
                /\ processing' = (gate = "post")
                /\ messages' = [messages EXCEPT ![page] =
                       IF gate = "post" THEN log
                       ELSE Append(log, AssistantMessage(t, TRUE, error))]
                /\ posts' = IF gate = "post"
                            THEN Append(posts,
                                     [turn |-> t, key |-> page,
                                      allow_redirects |-> FALSE,
                                      session_id |-> b1.session.session_id,
                                      session_token |-> b1.session.session_token,
                                      user_id |-> b1.session.user_id,
                                      clears |-> Len(destroyed)])
                            ELSE posts
                /\ UNCHANGED <<page, debug_mode>>
    IN  /\ session.exists
        /\ MissingEndpoints(config) = {}
        /\ page \in config.endpoints
        /\ ~processing
        /\ Len(turns) < MaxTurns
        /\ NoRerunPending
        /\ Script(Body(Prelude(clock).b))

\* the first POST returns a redirect status: the POST is repeated with the
\* payload and the headers of the first
ChatRedirected(t, resp) ==
    /\ t \in DOMAIN turns
    /\ turns[t].st = "post1"
    /\ IsRedirect(resp)
    /\ turns' = [turns EXCEPT ![t].st = "post2", ![t].first = resp]
    /\ posts' = Append(posts, [posts[Len(posts)] EXCEPT !.allow_redirects = TRUE])
    /\ UNCHANGED <<page, processing, messages, rlvars, rendervars, sanvars,
                   sessvars, valvars, extvars>>

\* the turn after its last POST has returned or raised: the outcome is the
\* outcome of the first POST too when the POST was not repeated
Returned(turn, st, resp) ==
    [turn EXCEPT !.st = st, !.resp = resp,
                 !.first = IF turn.st = "post1" THEN resp ELSE @]

\* the last POST of the turn returns or raises, and the handler runs on to
\* its st.rerun()
ChatReturns(t, resp) ==
    /\ t \in DOMAIN turns
    /\ InFlight(t)
    /\ ~(turns[t].st = "post1" /\ IsRedirect(resp))
    /\ security_logs' = LogAll(security_logs, QueryEvents(resp))
    /\ LET response_data == QueryReturn(resp)
           response_text == IF response_data.error THEN response_data.v
                            ELSE ExtractMessage(response_data.v)
       IN  IF ~response_data.error /\ DisplayRaises(response_text)
           THEN /\ turns' = [turns EXCEPT ![t] = Returned(@, "raised", resp)]
                /\ UNCHANGED <<messages, processing>>
           ELSE /\ turns' = [turns EXCEPT ![t] = Returned(@, "rerun", resp)]
                /\ messages' = [messages EXCEPT ![ConversationOf(t)] =
                       Append(@, AssistantMessage(t, response_data.error,
                                                  response_text))]
                /\ processing' = FALSE
    /\ UNCHANGED <<page, posts, rlvars, rendervars, sanvars, session, debug_mode,
                   config, next_id, destroyed, timeout_check, logged, valvars,
                   extvars>>

\* the session has received another interaction while the turn waited:
\* query_langflow_api returns, and the host stops the run at the first st
\* call after it
ChatStopped(t, resp) ==
    /\ t \in DOMAIN turns
    /\ InFlight(t)
    /\ ~(turns[t].st = "post1" /\ IsRedirect(resp))
    /\ QueryReturn(resp).error \/ ~DisplayRaises(ExtractMessage(QueryReturn(resp).v))
    /\ security_logs' = LogAll(security_logs, QueryEvents(resp))
    /\ turns' = [turns EXCEPT ![t] =
                     [Returned(@, "stopped", resp) EXCEPT !.interrupted = TRUE]]
    /\ UNCHANGED <<page, processing, messages, posts, rlvars, rendervars, sanvars,
                   session, debug_mode, config, next_id, destroyed, timeout_check,
                   logged, valvars, extvars>>

NextSession ==
    \/ Tick
    \/ ScriptRerun
    \/ \E p \in SessionVisited : ScriptNavigate(p)
    \/ ScriptToggleDebug
    \/ \E prompt \in SessionPrompts : ScriptChat(prompt)
    \/ \E t \in 1..MaxTurns, resp \in SessionResponses : ChatRedirected(t, resp)
    \/ \E t \in 1..MaxTurns, resp \in SessionResponses : ChatReturns(t, resp)
    \/ \E t \in 1..MaxTurns, resp \in SessionResponses : ChatStopped(t, resp)

SpecSession == InitSession /\ [][NextSession]_vars


(***************************************************************************)
(* Claims about the session, the configuration and the security log        *)
(***************************************************************************)
\* C14: whenever the last POST of a turn raises a timeout, whatever text
\* the exception carries, the handler appends exactly "Sorry, I encountered
\* an error: The request took too long. Please try again." and the event
\* api_timeout is recorded with severity ERROR
C14_TimeoutReply ==
    [][\A t \in DOMAIN turns :
          (/\ InFlight(t)
           /\ turns'[t].st = "rerun"
           /\ turns'[t].resp.cls = "Timeout")
          => /\ messages'[turns[t].key] =
                    Append(messages[turns[t].key],
                           AssistantMessage(t, TRUE,
                               JStr("The request took too long. Please try again.")))
             /\ security_logs' # <<>>
             /\ security_logs'[Len(security_logs')] = Event("api_timeout", "ERROR")
      ]_vars

C16_FreshIdentifiers ==
    /\ \A j \in DOMAIN destroyed :
          /\ session.session_id \notin Identifiers(destroyed[j])
          /\ session.session_token \notin Identifiers(destroyed[j])
    /\ \A i \in DOMAIN posts : \A j \in 1..posts[i].clears :
          {posts[i].session_id, posts[i].session_token, posts[i].user_id}
              \cap Identifiers(destroyed[j]) = {}

\* a POST of the session that replaced an expired one which had posted too
C16_Witness ==
    \E i \in DOMAIN posts :
        /\ posts[i].clears >= 1
        /\ destroyed[1].user_id # 0
        /\ \E h \in DOMAIN posts : posts[h].clears = 0

\* C17: check_session_timeout returns true when now - last_activity is
\* greater than the timeout and false when it is equal to or less than the
\* timeout
C17_TimeoutBoundary ==
    timeout_check.called =>
        /\ timeout_check.elapsed > SessionTimeout => timeout_check.result
        /\ timeout_check.elapsed <= SessionTimeout => ~timeout_check.result

\* the check of a session idle for exactly the timeout
C17_Witness ==
    /\ timeout_check.called
    /\ timeout_check.elapsed = SessionTimeout
    /\ ~timeout_check.result

\* C19: when st.secrets has no api.endpoints, or lacks the endpoint of one
\* of the four chat pages, no POST is issued, no message is appended and no
\* turn is started
C19_NoTurnsWithoutEndpoints ==
    ~(config.present /\ ChatPages \subseteq config.endpoints)
        => /\ posts = <<>>
           /\ turns = <<>>
           /\ \A k \in ChatPages : messages[k] = <<>>

\* the script has run several times on a configuration with a missing
\* endpoint
C19_Witness ==
    /\ config.present
    /\ config.endpoints # {}
    /\ ~(ChatPages \subseteq config.endpoints)
    /\ session.exists
    /\ session.last_activity > session.session_start

\* C20: the run of a turn whose prompt is rejected by an XSS pattern leaves
\* an event xss_attempt of severity WARNING in the security log, the run of
\* a turn rejected by an SQL pattern an event sql_injection_attempt of
\* severity WARNING
C20_InjectionLoggedAsWarning ==
    [][\A t \in (DOMAIN turns') \ (DOMAIN turns) :
          /\ (/\ turns'[t].allowed
              /\ ValidateInput(turns'[t].prompt).msg =
                     "Invalid input detected. Please remove any code or scripts.")
             => \E i \in DOMAIN security_logs' :
                    security_logs'[i] = Event("xss_attempt", "WARNING")
          /\ (/\ turns'[t].allowed
              /\ ValidateInput(turns'[t].prompt).msg =
                     "Invalid input detected. Please remove any SQL commands.")
             => \E i \in DOMAIN security_logs' :
                    security_logs'[i] = Event("sql_injection_attempt", "WARNING")
      ]_vars


(***************************************************************************)
(* validate_input, called once on a prompt of every kind. A prompt that    *)
(* is empty or blank trips no pattern, has no special character and no     *)
(* long word; it may be over-long and hold a control character (a run of   *)
(* vertical tabs is blank to str.strip).                                   *)
(***************************************************************************)
\* the sets of checks a prompt can trip
PromptKinds ==
    {fs \in SUBSET Features : "empty" \in fs => fs \subseteq {"empty", "long", "ctrl"}}

\* the log_security_event calls of validate_input, which stand in the loops
\* over INJECTION_PATTERNS and SQL_INJECTION_PATTERNS, before their return
ValidationEvents(p) ==
    IF p["empty"] THEN <<>>
    ELSE IF p["long"] THEN <<>>
    ELSE IF p["xss"] THEN <<Event("xss_attempt", "INFO")>>
    ELSE IF p["sql"] THEN <<Event("sql_injection_attempt", "INFO")>>
    ELSE <<>>

InitVal ==
    /\ clock = 0
    /\ max_requests = 1
    /\ requests = NoRequests
    /\ thr = [t \in Threads |-> IdleThread]
    /\ calls = <<>>
    /\ RenderIdle
    /\ SanIdle
    /\ AppIdle
    /\ SessIdle
    /\ val_in \in PromptKinds
    /\ val_out = [ok |-> TRUE, msg |-> ""]
    /\ val_events = <<>>
    /\ val_n = 0
    /\ ExtIdle

\* is_valid, error_msg = InputValidator.validate_input(user_input)
Validate ==
    /\ val_n = 0
    /\ val_out' = ValidateInput(Prompt(val_in))
    /\ val_events' = ValidationEvents(Prompt(val_in))
    /\ val_n' = 1
    /\ UNCHANGED <<val_in, rlvars, rendervars, sanvars, appvars, sessvars, extvars>>

NextVal == Validate

SpecVal == InitVal /\ [][NextVal]_vars

\* the rules in the order the claim gives them, and their reasons
RuleOrder == <<"empty", "long", "xss", "sql", "special", "ctrl", "longword">>

RuleReason == <<
    "Input cannot be empty",
    "Input exceeds maximum length of 5000 characters",
    "Invalid input detected. Please remove any code or scripts.",
    "Invalid input detected. Please remove any SQL commands.",
    "Input contains too many special characters",
    "Invalid input detected",
    "Input contains excessively long words" >>

\* C21: validate_input returns the reason of the first rule, in the order
\* empty, length, injection pattern, SQL pattern, special characters,
\* control character, long word, that the prompt fails, and accepts a
\* prompt that fails none; it logs xss_attempt exactly when the injection
\* rule is that first rule, sql_injection_attempt exactly when the SQL rule
\* is, and nothing else
C21_FirstFailingRule ==
    val_n = 1 =>
        LET failing == {i \in DOMAIN RuleOrder : RuleOrder[i] \in val_in}
            first == CHOOSE i \in failing : \A j \in failing : i <= j
            kinds == [i \in DOMAIN val_events |-> val_events[i].type]
        IN  IF failing = {} THEN val_out.ok /\ kinds = <<>>
            ELSE /\ ~val_out.ok
                 /\ val_out.msg = RuleReason[first]
                 /\ kinds = IF RuleOrder[first] = "xss" THEN <<"xss_attempt">>
                            ELSE IF RuleOrder[first] = "sql"
                            THEN <<"sql_injection_attempt">>
                            ELSE <<>>

\* an over-long prompt that holds a script and an SQL command has been
\* validated
C21_Witness ==
    /\ val_n = 1
    /\ {"long", "xss", "sql"} \subseteq val_in
    /\ val_events = <<>>


(***************************************************************************)
(* extract_message_from_response, called once on an envelope. The          *)
(* envelopes are those of the shape {"outputs": [{"outputs": [inner]}]},   *)
(* inner an object with any of "messages" and "results", well formed or    *)
(* not, and envelopes that are cut off above inner.                        *)
(***************************************************************************)
\* what inner_output may hold under "messages", as its <<key, value>> pairs
MessagesParts ==
    {<<>>,
     << <<"messages", JList(<<>>)>> >>,
     << <<"messages", JList(<< JObj(<<>>) >>)>> >>,
     << <<"messages", JStr("hello")>> >>,
     << <<"messages", JList(<< JStr("hello") >>)>> >>}
    \cup {<< <<"messages", JList(<< JObj(<< <<"message", leaf>> >>) >>)>> >> :
             leaf \in {JStr("hello"), JNull, JNum(5)}}

\* what inner_output may hold under "results"
ResultsParts ==
    {<<>>,
     << <<"results", JObj(<<>>)>> >>,
     << <<"results", JNum(5)>> >>}
    \cup {<< <<"results", JObj(<< <<"message", message_obj>> >>)>> >> :
             message_obj \in
                 {JObj(<<>>),
                  JObj(<< <<"text", JStr("the text")>> >>),
                  JObj(<< <<"data", JObj(<< <<"text", JStr("data text")>> >>)>> >>),
                  JObj(<< <<"text", JStr("the text")>>,
                          <<"data", JObj(<< <<"text", JStr("data text")>> >>)>> >>),
                  JObj(<< <<"data", JNull>> >>),
                  JStr("the text")}}

\* the decoded bodies given to the extractor
ExtractInputs ==
    {Envelope(JObj(m \o r)) : m \in MessagesParts, r \in ResultsParts}
    \cup {JNum(5), JNull, JStr("hello"), JList(<<>>), JObj(<<>>),
          JObj(<< <<"error", JStr("an error")>> >>),
          JObj(<< <<"outputs", JList(<<>>)>> >>),
          JObj(<< <<"outputs", JStr("hello")>> >>),
          JObj(<< <<"outputs", JList(<< JObj(<<>>) >>)>> >>),
          JObj(<< <<"outputs", JList(<< JNum(5) >>)>> >>),
          JObj(<< <<"outputs", JList(<< JObj(<< <<"outputs", JList(<<>>)>> >>) >>)>> >>)}

InitExtract ==
    /\ clock = 0
    /\ max_requests = 1
    /\ requests = NoRequests
    /\ thr = [t \in Threads |-> IdleThread]
    /\ calls = <<>>
    /\ RenderIdle
    /\ SanIdle
    /\ AppIdle
    /\ SessIdle
    /\ ValIdle
    /\ ext_in \in ExtractInputs
    /\ ext_out = <<>>
    /\ ext_n = 0

\* response_text = extract_message_from_response(response_data)
Extract ==
    /\ ext_n = 0
    /\ ext_out' = ExtractMessage(ext_in)
    /\ ext_n' = 1
    /\ UNCHANGED <<ext_in, rlvars, rendervars, sanvars, appvars, sessvars, valvars>>

NextExtract == Extract

SpecExtract == InitExtract /\ [][NextExtract]_vars


(***************************************************************************)
(* Claims about extract_message_from_response. The projection paths are    *)
(* read off the envelope with lookups that yield Absent at a missing key,  *)
(* at a value that is not an object, or at an empty list.                  *)
(***************************************************************************)
Absent == Raised("absent")

\* v.k
Field(v, k) ==
    IF v.t = "obj" /\ (\E i \in DOMAIN v.kv : v.kv[i][1] = k)
    THEN v.kv[CHOOSE i \in DOMAIN v.kv : v.kv[i][1] = k][2]
    ELSE Absent

\* v[0]
First(v) == IF v.t = "list" /\ v.xs # <<>> THEN v.xs[1] ELSE Absent

\* outputs[0].outputs[0]
InnerOutput(e) == First(Field(First(Field(e, "outputs")), "outputs"))

\* outputs[0].outputs[0].messages[0].message
Path1(e) == Field(First(Field(InnerOutput(e), "messages")), "message")

\* outputs[0].outputs[0].results.message.text
Path2(e) == Field(Field(Field(InnerOutput(e), "results"), "message"), "text")

\* outputs[0].outputs[0].results.message.data.text
Path3(e) == Field(Field(Field(Field(InnerOutput(e), "results"), "message"), "data"), "text")

\* the earliest path that is present, else the pretty-printed envelope
FirstPresent(e) ==
    IF Path1(e) # Absent THEN Path1(e)
    ELSE IF Path2(e) # Absent THEN Path2(e)
    ELSE IF Path3(e) # Absent THEN Path3(e)
    ELSE JsonDump

\* every value the paths pass through has the shape the paths expect: the
\* envelope, outputs[0], inner, messages[0], results, message and data are
\* objects where they exist, and messages[0] has a "message" when the
\* messages list is non-empty
Conformant(e) ==
    LET ObjIfThere(v) == v = Absent \/ v.t = "obj"
        results == Field(InnerOutput(e), "results")
    IN  /\ e.t = "obj"
        /\ ObjIfThere(First(Field(e, "outputs")))
        /\ ObjIfThere(InnerOutput(e))
        /\ First(Field(InnerOutput(e), "messages")) # Absent => Path1(e) # Absent
        /\ ObjIfThere(results)
        /\ ObjIfThere(Field(results, "message"))
        /\ ObjIfThere(Field(Field(results, "message"), "data"))

\* C22: on an envelope whose values have the expected shapes the extractor
\* returns messages[0].message when the lists are non-empty, else
\* results.message.text, else results.message.data.text, else the
\* pretty-printed envelope: of the paths that are present, the earliest
C22_FixedPriority ==
    (ext_n = 1 /\ Conformant(ext_in)) => ext_out = FirstPresent(ext_in)

\* an envelope with all three paths has been projected
C22_Witness ==
    /\ ext_n = 1
    /\ Conformant(ext_in)
    /\ Path1(ext_in) # Absent
    /\ Path2(ext_in) # Absent
    /\ Path3(ext_in) # Absent
    /\ ext_out = JStr("hello")

\* C23: on every envelope, a lookup that meets a missing key, a value of
\* the wrong shape or an empty list falls through to the next rule: the
\* extractor returns the earliest path that resolves, and the
\* pretty-printed envelope when none does
C23_FallsThrough ==
    ext_n = 1 => ext_out = FirstPresent(ext_in)

\* C24: whatever the envelope, the extractor returns a string
C24_AlwaysString ==
    ext_n = 1 => ext_out.t = "str"


(***************************************************************************)
(* Claims about the upstream calls of a turn                               *)
(***************************************************************************)
\* the POSTs of turn t, in the order they were issued
PostsOf(t) == SelectSeq(posts, LAMBDA p : p.turn = t)

\* the statuses after which the spec has the POST repeated
RetryStatuses == {301, 302, 303, 307, 308}

\* C25: a turn issues at most two POSTs; the first has redirects disabled;
\* a second POST, the same but for redirects enabled, has been issued
\* exactly when the first response has a status in {301, 302, 303, 307,
\* 308}; there is no third
C25_AtMostTwoPosts ==
    \A t \in DOMAIN turns :
        LET ps == PostsOf(t)
            first == turns[t].first
        IN  /\ Len(ps) <= 2
            /\ Len(ps) >= 1 => ~ps[1].allow_redirects
            /\ Len(ps) = 2 <=> (first.kind = "http" /\ first.status \in RetryStatuses)
            /\ Len(ps) = 2 => ps[2] = [ps[1] EXCEPT !.allow_redirects = TRUE]

\* a turn has ended after two POSTs and another after one POST whose
\* response had status 300
C25_Witness ==
    /\ \E t \in DOMAIN turns :
           Len(PostsOf(t)) = 2 /\ turns[t].st \in {"rerun", "done"}
    /\ \E t \in DOMAIN turns :
           /\ Len(PostsOf(t)) = 1
           /\ turns[t].first.kind = "http" /\ turns[t].first.status = 300

\* the handler of turn t has run to its end in this step
HandlerEnds(t) == InFlight(t) /\ turns'[t].st = "rerun"

\* the message the step has appended to the conversation of turn t
Appended(t) == messages'[turns[t].key][Len(messages'[turns[t].key])]

\* the step has appended one message to the conversation of turn t
AppendsOne(t) ==
    /\ messages'[turns[t].key] # <<>>
    /\ messages'[turns[t].key] = Append(messages[turns[t].key], Appended(t))

\* C26: when the last response of a turn has a status outside 200-299,
\* the handler appends an error reply ("Sorry, I encountered an error: ..."),
\* never the text extracted from the body
C26_NonSuccessIsError ==
    [][\A t \in DOMAIN turns :
          (/\ HandlerEnds(t)
           /\ turns'[t].resp.kind = "http"
           /\ turns'[t].resp.status \notin 200..299)
          => /\ AppendsOne(t)
             /\ Appended(t).role = "assistant"
             /\ Appended(t).sorry
      ]_vars

\* C27: when the last response of a turn has a status in 200-299 and a
\* body that decodes as JSON, the handler appends, as the assistant message
\* of the turn, extract_message_from_response of the decoded body
C27_SuccessIsExtracted ==
    [][\A t \in DOMAIN turns :
          (/\ HandlerEnds(t)
           /\ turns'[t].resp.kind = "http"
           /\ turns'[t].resp.status \in 200..299
           /\ turns'[t].resp.body # NotJson)
          => /\ AppendsOne(t)
             /\ Appended(t) =
                    AssistantMessage(t, FALSE, ExtractMessage(turns'[t].resp.body))
      ]_vars

\* C28: a conversation holds the user message of a turn only when the
\* rate limiter has allowed the turn and validate_input has accepted its
\* prompt
C28_UserMessageAfterGate ==
    \A t \in DOMAIN turns : \A k \in ChatPages : \A i \in DOMAIN messages[k] :
        (messages[k][i].role = "user" /\ messages[k][i].turn = t)
        => turns[t].allowed /\ ValidateInput(turns[t].prompt).ok


(***************************************************************************)
(* SecurityLogger.log_security_event, called any number of times in one    *)
(* session. logged is the history of the calls; security_logs is the list  *)
(* the calls leave in st.session_state.                                    *)
(***************************************************************************)
\* log_security_event calls made in one behaviour
MaxLogCalls == 6

\* the events the callers record
LogEvents ==
    {Event("session_created", "INFO"), Event("rate_limit_exceeded", "INFO"),
     Event("api_timeout", "ERROR")}

InitLog ==
    /\ RLIdle
    /\ RenderIdle
    /\ SanIdle
    /\ AppIdle
    /\ SessIdle
    /\ ValIdle
    /\ ExtIdle

Log(e) ==
    /\ Len(logged) < MaxLogCalls
    /\ security_logs' = LogSecurityEvent(security_logs, e.type, e.severity)
    /\ logged' = Append(logged, e)
    /\ UNCHANGED <<session, debug_mode, config, next_id, destroyed, timeout_check,
                   rlvars, rendervars, sanvars, appvars, valvars, extvars>>

NextLog == \E e \in LogEvents : Log(e)

SpecLog == InitLog /\ [][NextLog]_vars

\* C29: the log never holds more than MAX_LOG_ENTRIES events, and it is the
\* most recent events recorded, in the order they were recorded: when the
\* capacity is exceeded the oldest are the ones that go
C29_BoundedRing ==
    LET n == Len(logged)
        kept == IF n < MaxLogEntries THEN n ELSE MaxLogEntries
    IN  /\ Len(security_logs) <= MaxLogEntries
        /\ Len(security_logs) = kept
        /\ \A i \in 1..kept : security_logs[i] = logged[n - kept + i]

\* more events than the capacity have been recorded and the oldest one,
\* which differs from the oldest one kept, is gone
C29_Witness ==
    /\ Len(logged) > MaxLogEntries
    /\ Len(security_logs) = MaxLogEntries
    /\ logged[1] # security_logs[1]
    /\ logged[1] # logged[2]


(***************************************************************************)
(* The public operations of RateLimiter, called one after the other by one *)
(* caller, with the clock moving between the calls. calls is the history   *)
(* of the calls that returned, each                                        *)
(*   [op, u, at, ok, n]                                                    *)
(* with at the clock when it returned, ok what is_allowed returned and n   *)
(* what get_wait_time or get_request_count returned.                       *)
(***************************************************************************)
InitRLOps ==
    /\ clock = 0
    /\ max_requests \in 1..MaxM
    /\ requests = NoRequests
    /\ thr = [t \in Threads |-> IdleThread]
    /\ calls = <<>>
    /\ RenderIdle
    /\ SanIdle
    /\ AppIdle
    /\ SessIdle
    /\ ValIdle
    /\ ExtIdle

\* the operation has returned
Returns(op, u, ok, n) ==
    /\ Len(calls) < MaxCalls
    /\ calls' = Append(calls, [op |-> op, u |-> u, at |-> clock, ok |-> ok, n |-> n])
    /\ UNCHANGED <<clock, max_requests, thr, rendervars, sanvars, appvars,
                   sessvars, valvars, extvars>>

\* is_allowed(u)
IsAllowed(u) ==
    LET r == CheckAndRecord(CleanOld(requests, clock), u, clock, max_requests)
    IN  /\ requests' = r[2]
        /\ Returns("is_allowed", u, r[1], 0)

\* get_wait_time(u)
GetWaitTime(u) ==
    /\ requests' = requests
    /\ Returns("get_wait_time", u, TRUE, WaitTime(requests, u, clock, max_requests))

\* get_request_count(u)
GetRequestCount(u) ==
    /\ requests' = CleanOld(requests, clock)
    /\ Returns("get_request_count", u, TRUE, Len(BucketOf(requests', u)))

NextRLOps ==
    \/ Tick
    \/ \E u \in Users : IsAllowed(u)
    \/ \E u \in Users : GetWaitTime(u)
    \/ \E u \in Users : GetRequestCount(u)

SpecRLOps == InitRLOps /\ [][NextRLOps]_vars

\* an operation has returned and the clock has not moved since
JustReturned == calls # <<>> /\ calls[Len(calls)].at = clock

\* C30: when a public operation has just returned, every timestamp in
\* every bucket is younger than the window, and no bucket is empty
C30_BucketsCleanAfterOp ==
    JustReturned =>
        \A u \in DOMAIN requests :
            /\ requests[u] # <<>>
            /\ \A i \in DOMAIN requests[u] : clock - requests[u][i] < Window

\* the latest call of the history
LastCall == calls[Len(calls)]

\* the bucket of u
Bucket(u) == IF u \in DOMAIN requests THEN requests[u] ELSE <<>>

\* the positions of the timestamps of u that have not expired at the clock
Fresh(u) == {i \in DOMAIN Bucket(u) : clock - Bucket(u)[i] < Window}

\* the reference value of the wait: 0 below the limit, else the time until
\* the oldest timestamp that has not expired leaves the window
ReferenceWait(u) ==
    IF Cardinality(Fresh(u)) < max_requests THEN 0
    ELSE LET oldest == Bucket(u)[CHOOSE i \in Fresh(u) :
                                     \A j \in Fresh(u) : Bucket(u)[i] <= Bucket(u)[j]]
         IN  IF oldest + Window - clock > 0 THEN oldest + Window - clock ELSE 0

\* C31: what get_wait_time(u) returns is the reference value computed on
\* the bucket of u without its expired timestamps, and it is 0 exactly when
\* is_allowed(u) would return True at that clock
C31_WaitTimeIsReference ==
    (JustReturned /\ LastCall.op = "get_wait_time") =>
        /\ LastCall.n = ReferenceWait(LastCall.u)
        /\ LastCall.n = 0 <=> Cardinality(Fresh(LastCall.u)) < max_requests

\* get_wait_time has returned a wait for a full bucket of two timestamps
C31_Witness ==
    /\ JustReturned
    /\ LastCall.op = "get_wait_time"
    /\ LastCall.n > 0
    /\ max_requests = 2
    /\ Len(requests[LastCall.u]) = 2


(***************************************************************************)
(* Claims about the session fields, clear_session and the page run         *)
(***************************************************************************)
\* the session keys, the log and the generators, as initialize_session
\* finds them
SessionState == [session |-> session, logs |-> security_logs, next_id |-> next_id]

\* C32: once initialize_session has been called, session_token, session_id,
\* user_id, session_start, last_activity and session_integrity_hash are
\* all present, and a further initialize_session call, at any time,
\* changes nothing
C32_InitializePopulatesAll ==
    session.exists =>
        /\ session.session_token # 0
        /\ session.session_id # 0
        /\ session.session_integrity_hash # 0
        /\ session.user_id # 0
        /\ \A now \in 0..MaxTime : InitializeSession(SessionState, now) = SessionState

\* the session fields initialize_session draws from the generators
Drawn(s) == {s.session_token, s.session_id, s.session_integrity_hash} \ {0}

\* C33: a step in which clear_session runs leaves the page and the debug
\* flag as they were and removes every other key: the message logs, the
\* rate limiter's buckets, user_id, the processing flag and the old
\* identifiers are gone, and the session fields are drawn anew
C33_ClearKeepsPageAndDebug ==
    [][destroyed' # destroyed
          => /\ page' = page
             /\ debug_mode' = debug_mode
             /\ \A k \in ChatPages : messages'[k] = <<>>
             /\ requests' = NoRequests
             /\ ~processing'
             /\ session'.user_id = 0
             /\ session'.exists
             /\ Drawn(session') \cap Drawn(session) = {}
             /\ Cardinality(Drawn(session')) = 3
      ]_vars

\* a session that had a turn on a chat page, with the debug flag set, has
\* been cleared
C33_Witness ==
    /\ Len(destroyed) = 1
    /\ destroyed[1].user_id # 0
    /\ page = "Furze"
    /\ debug_mode
    /\ turns # <<>>
    /\ \A k \in ChatPages : messages[k] = <<>>
    /\ session.user_id = 0


(***************************************************************************)
(* Further claims about the renderer (SpecRender)                          *)
(***************************************************************************)
\* C34: the headers of a table are the cells of its header line, the
\* empty ones included: only the two empty entries outside the first and
\* the last '|' are dropped
C34_HeadersKeepEmptyCells ==
    \A i \in DOMAIN plan :
        plan[i].kind = "table" => plan[i].headers = Cells(plan[i].src[1])

\* the for loop is at a line of the reply, which this step scans
Scans == dpc = "scan" /\ lineno <= Len(content) /\ lineno' = lineno + 1

\* the line the step scans, stripped
Scanned == Strip(content[lineno])

\* a candidate table line: it holds at least two '|'
Candidate(ls) == Count(ls, "|") >= 2

\* a separator line: it holds '|' and one of "---", "--|", "-|-", "|-|"
SeparatorLine(ls) == Contains(ls, <<"|">>) /\ HasSeparatorText(ls)

\* the step has added the scanned line to the table run
Collected == in_table' /\ table_lines' = Append(table_lines, Scanned)

\* C35: inside a table run a blank line changes nothing, a candidate or
\* separator line is added to the run, and the first non-empty line that
\* is neither ends the run: the table is rendered and the line begins the
\* prose that follows
C35_BlankLinesStayInTable ==
    [][(Scans /\ in_table)
          => /\ Scanned = <<>>
                    => /\ in_table'
                       /\ UNCHANGED <<table_lines, current_text, plan>>
             /\ (Scanned # <<>> /\ (Candidate(Scanned) \/ SeparatorLine(Scanned)))
                    => Collected /\ plan' = plan
             /\ (Scanned # <<>> /\ ~Candidate(Scanned) /\ ~SeparatorLine(Scanned))
                    => /\ ~in_table'
                       /\ table_lines' = <<>>
                       /\ plan' = Append(plan, RenderTable(table_lines))
                       /\ current_text' = <<content[lineno]>>
      ]_vars

\* C36: the scanner adds a line to the table run when the line holds at
\* least two '|', wherever they stand, and adds no other line but a
\* separator line
C36_TwoPipesMakeCandidate ==
    [][Scans
          => /\ Candidate(Scanned) => Collected
             /\ Collected => (Candidate(Scanned) \/ SeparatorLine(Scanned))
      ]_vars

\* the step is a page run: the clock stands still and no turn waits for
\* the upstream
PageRun == clock' = clock /\ \A t \in DOMAIN turns : ~InFlight(t)

\* the session has been idle for longer than the timeout
Expired == session.exists /\ clock - session.last_activity > SessionTimeout

\* C37: a page run checks the expiry against the last_activity the run
\* before it has left, before anything else; when the session has expired
\* the run destroys it with its last_activity as it was, starts no turn,
\* issues no POST and leaves no message
C37_ExpiryCheckedFirst ==
    [][PageRun
          => /\ session.exists
                    => /\ timeout_check'.called
                       /\ timeout_check'.elapsed = clock - session.last_activity
                       /\ timeout_check'.result = Expired
             /\ Expired
                    => /\ destroyed' = Append(destroyed, session)
                       /\ posts' = posts
                       /\ Len(turns') = Len(turns)
                       /\ \A k \in ChatPages : messages'[k] = <<>>
      ]_vars

\* a session that had a turn at clock 0 was found expired by a run after
\* it had been idle for longer than the timeout
C37_Witness ==
    /\ timeout_check.called
    /\ timeout_check.result
    /\ timeout_check.elapsed > SessionTimeout
    /\ Len(destroyed) = 1
    /\ destroyed[1].last_activity = 0
    /\ posts # <<>>
    /\ session.last_activity = clock

\* the turn the step has started, if any
Started1 == (DOMAIN turns') \ (DOMAIN turns)

\* C38: the limiter is asked, and the request recorded, before the prompt
\* is validated: a turn is admitted exactly when the user's bucket holds
\* fewer than max_requests timestamps of the window, and an admitted turn
\* adds the timestamp of the clock to the bucket also when its prompt is
\* rejected and nothing is sent upstream
C38_RejectedPromptsCount ==
    [][\A t \in Started1 :
          LET before == Cardinality(Fresh(SessionUser))
              bucket == IF SessionUser \in DOMAIN requests'
                        THEN requests'[SessionUser] ELSE <<>>
              valid == ValidateInput(turns'[t].prompt).ok
          IN  /\ turns'[t].allowed <=> before < max_requests
              /\ turns'[t].allowed
                    => /\ Len(bucket) = before + 1
                       /\ bucket[before + 1] = clock
              /\ ~valid => posts' = posts
      ]_vars

\* in one session the first prompt was admitted and rejected by
\* validate_input, and the next prompt, a valid one, was rate limited
C38_Witness ==
    /\ destroyed = <<>>
    /\ Len(turns) = 2
    /\ turns[1].allowed
    /\ ~ValidateInput(turns[1].prompt).ok
    /\ ValidateInput(turns[2].prompt).ok
    /\ ~turns[2].allowed
    /\ posts = <<>>


(***************************************************************************)
(* SessionManager and the session's RateLimiter called directly, in any    *)
(* order: initialize_session, is_allowed() for the user of the session,    *)
(* and clear_session followed by the lines of the script that create the   *)
(* absent "rate_limiter" anew. calls is the history of the calls, each     *)
(*   [op, u, at, ok, n]                                                    *)
(* with ok what is_allowed returned and n the user_id it was counted for.  *)
(***************************************************************************)
InitClear ==
    /\ clock = 0
    /\ max_requests \in 1..MaxM
    /\ requests = NoRequests
    /\ thr = [t \in Threads |-> IdleThread]
    /\ calls = <<>>
    /\ RenderIdle
    /\ SanIdle
    /\ AppIdle
    /\ SessIdle
    /\ ValIdle
    /\ ExtIdle

\* the call is added to the history
Called(op, ok, n) ==
    /\ Len(calls) < MaxCalls
    /\ calls' = Append(calls, [op |-> op, u |-> SessionUser, at |-> clock,
                               ok |-> ok, n |-> n])
    /\ UNCHANGED <<clock, max_requests, thr, debug_mode, config, timeout_check,
                   logged, page, turns, posts, rendervars, sanvars, valvars,
                   extvars>>

\* SessionManager.initialize_session()
InitializeCalled ==
    /\ Keep(InitializeSession(SessionState, clock))
    /\ Called("initialize_session", TRUE, 0)
    /\ UNCHANGED <<requests, messages, processing, destroyed>>

\* st.session_state["rate_limiter"].is_allowed()
AllowedCalled ==
    LET b == GetUserId(SessionState)
        r == CheckAndRecord(CleanOld(requests, clock), SessionUser, clock,
                            max_requests)
    IN  /\ session' = b.session
        /\ next_id' = b.next_id
        /\ security_logs' =
               IF r[1] THEN b.logs
               ELSE LogSecurityEvent(b.logs, "rate_limit_exceeded", "INFO")
        /\ requests' = r[2]
        /\ Called("is_allowed", r[1], b.session.user_id)
        /\ UNCHANGED <<messages, processing, destroyed>>

\* SessionManager.clear_session()
ClearCalled ==
    /\ Keep(ClearSession(SessionState, clock))
    /\ destroyed' = Append(destroyed, session)
    /\ requests' = ClearedKeys(messages, requests).requests
    /\ messages' = ClearedKeys(messages, requests).messages
    /\ processing' = ClearedKeys(messages, requests).processing
    /\ Called("clear_session", TRUE, 0)

NextClear == Tick \/ InitializeCalled \/ AllowedCalled \/ ClearCalled

SpecClear == InitClear /\ [][NextClear]_vars

\* the user_ids of the sessions cleared so far
ClearedUsers == {destroyed[i].user_id : i \in DOMAIN destroyed} \ {0}

\* C39: clear_session leaves no bucket and no user_id, and the is_allowed
\* call that follows it is admitted, for a user_id no cleared session had,
\* into a bucket that holds that request alone, whatever the bucket of the
\* cleared user held
C39_ClearResetsRateLimit ==
    [][/\ (calls' # calls /\ calls'[Len(calls')].op = "clear_session")
              => requests' = NoRequests /\ session'.user_id = 0
       /\ (/\ calls # <<>>
           /\ calls[Len(calls)].op = "clear_session"
           /\ calls' # calls
           /\ calls'[Len(calls')].op = "is_allowed")
              => /\ calls'[Len(calls')].ok
                 /\ calls'[Len(calls')].n \notin ClearedUsers
                 /\ calls'[Len(calls')].n # 0
                 /\ requests' = [u \in {SessionUser} |-> <<clock>>]
      ]_vars

\* with max_requests = 1 a request was admitted, the session was cleared
\* at the same clock, with the bucket full, and the next request was
\* admitted at that clock for another user_id
C39_Witness ==
    /\ max_requests = 1
    /\ Len(calls) = 3
    /\ calls[1].op = "is_allowed" /\ calls[1].ok
    /\ calls[2].op = "clear_session"
    /\ calls[3].op = "is_allowed" /\ calls[3].ok
    /\ calls[1].at = calls[3].at
    /\ calls[1].n # calls[3].n


(***************************************************************************)
(* Claims about the security log across clear_session (SpecSession)        *)
(***************************************************************************)
\* C40: when clear_session has run, the log is the session_created event
\* of the new session and nothing else: the session_destroyed event and
\* everything recorded before it went with the keys of the old session
C40_ClearDiscardsLog ==
    [][destroyed' # destroyed
          => security_logs' = <<Event("session_created", "INFO")>>
      ]_vars

\* a session whose log held session_created, xss_attempt,
\* input_validation_failed and session_timeout has been cleared
C40_Witness ==
    /\ Len(destroyed) = 1
    /\ timeout_check.result
    /\ turns # <<>>
    /\ turns[1].allowed
    /\ ValidateInput(turns[1].prompt).msg =
           "Invalid input detected. Please remove any code or scripts."
    /\ security_logs = <<Event("session_created", "INFO")>>

====
